---------------------------- MODULE Spec2Model ----------------------------
(***************************************************************************)
(* A model of the context correlation engine of kubernetes-mcp-server:     *)
(*   - the retrying request loop of the ArgoCD and GitLab clients,         *)
(*   - the CredentialProvider and its read/write lock,                     *)
(*   - the namespace list (concurrent collection and sequential topology), *)
(*   - TraceResourceDeployment,                                            *)
(*   - FormatResourceContext / CombineContexts / TruncateContextSmartly.   *)
(* Each part has its own specification over the shared variables; the      *)
(* variables of the other parts stay at their idle values.                 *)
(***************************************************************************)
EXTENDS Integers, Sequences, FiniteSets, TLC

VARIABLES
    \* ---- request loop (argocd/client.go, gitlab client) ----
    client,        \* "argocd" or "gitlab": whose doRequest runs
    hasToken,      \* the stored credential has a non-empty Token
    hasUserPass,   \* the stored credential has Username and Password
    ctxCancelled,  \* the request context is done
    rpc,           \* position of doRequest: "attempt", "sleep", "done", "idle"
    attempt,       \* the loop variable of doRequest
    timerFired,    \* the time.After channel of the current sleep is ready
    attemptLog,    \* what the upstream did on each attempt so far
    sleeps,        \* the delays (seconds) of the backoff sleeps so far
    refreshes,     \* UpdateArgoToken calls made by the 401 branch
    result,        \* what doRequest returned: [resp, err]
    \* ---- CredentialProvider (auth package) ----
    now,           \* the clock, in units of 24 hours
    credentials,   \* p.credentials: service -> Credentials
    readerCount,   \* p.mu: number of read locks held
    writer,        \* p.mu: the write lock is held
    writerOwner,   \* the task that took the write lock (NoTask: none)
    holdsRead,     \* per task: it has taken the read lock and not released it
    cpc,           \* per task: position in GetCredentials / UpdateArgoToken
    csvc,          \* per task: the serviceType argument
    cret,          \* per task: what the last call returned
    crashed,       \* the runtime stopped the process with a fatal error
    \* ---- namespace list (k8s/resource_mapper.go) ----
    lop,           \* "collect": GetAllNamespaceResources, "topology": GetNamespaceTopology
    discoveryOK,   \* ServerPreferredResources returned no error
    catalog,       \* the resource lists that discovery returned
    lctx,          \* the context of the operation is cancelled
    lmain,         \* position of the operation: "discover", "wait", "done", "off"
    wpc,           \* per resource list: position of its goroutine / loop pass
    widx,          \* per resource list: index of the resource being listed
    wlist,         \* per resource list: list.Items held for the merge
    mu,            \* the merge mutex: its holder, or NoTask
    collection,    \* kind -> the items stored for it
    listLog,       \* the List calls that returned, with what they returned
    cancelInFlight,\* the context was cancelled while a List call was in flight
    lresult,       \* what the operation returned: "ok", "err", "ctxerr"
    \* ---- TraceResourceDeployment (correlator/gitops.go) ----
    tpc,           \* the upstream call that is next, or "done" / "off"
    tapp,          \* argoApps[0], once found
    terrors,       \* the local variable errors
    tcalls,        \* the upstream calls made so far and whether each succeeded
    trc,           \* the ResourceContext being filled in
    tresult,       \* the error value returned: "nil", or "none" before the return
    \* ---- ContextManager (internal/mcp/context.go) ----
    fcm,           \* cm.maxContextSize of the handler's manager; 0: no manager
    fcall,         \* the last call made on the manager and its argument
    fret,          \* what that call produced
    \* ---- claude.ProtocolHandler.GetCompletion (internal/claude/protocol.go) ----
    ppc,           \* "idle", "sent" (client invoked), "done", "panic"; "off"
    pin,           \* the prompts handed to GetCompletion
    psent,         \* the lengths of the system and user message handed to the client
    pret,          \* what GetCompletion returned: "response", "error", or "none"
    \* ---- change impact (internal/correlator/gitops.go) ----
    ipc,           \* "idle", "apps" (in the loops), "done"; "off"
    ichange,       \* the change analysed: commit and SHA, or merge request and IID
    idiffs,        \* the diffs of the commit
    iproject,      \* projectPath
    iapps,         \* the applications the loop has still to visit
    inodes,        \* the tree nodes the inner loop has still to visit
    iresult,       \* result
    iret,          \* what the call returned: "ok", "err", or "none"
    \* ---- kind resolution (internal/k8s/resources.go) ----
    kpc,           \* "on" while the client is in use; "off"
    kcluster,      \* what ServerPreferredResources answers on this cluster
    klog,          \* the resolutions made: the type asked for and the result
    kdiscoveries,  \* the number of calls of ServerPreferredResources
    \* ---- requests (internal/api/routes.go, internal/mcp/protocol.go) ----
    qpc,           \* "idle", "process", "trace", "enrich", "analyze", "commit", "prompt", "done"; "off"
    qendpoint,     \* the endpoint the request came in on
    qcluster,      \* what ServerPreferredResources answers during the request
    qreq,          \* the decoded request
    qcalls,        \* the upstream services called for the request
    qheld,         \* what has been collected so far
    qllm,          \* the outcome of the completion call: "none", "ok", "failed"
    qresp,         \* the response written
    \* ---- namespace topology ----
    mpc,           \* "idle", "mapping", "returned"; "off"
    mdiscovery,    \* what ServerPreferredResources answers
    mfailing,      \* the resources whose List fails
    mrels,         \* topology.Relationships
    mnext,         \* the next resource list of the loop
    mret,          \* what GetNamespaceTopology returned
    \* ---- issue classification ----
    xpc,           \* "idle", "once", "twice"; "off"
    xlog,          \* per call of TroubleshootResource its inputs and its result
    \* ---- the section Related Resources ----
    apc,           \* "idle", "once", "twice"; "off"
    alog,          \* per call of FormatResourceContext the context, the limit and the document
    \* ---- configuration ----
    vpc,           \* "idle", "loaded", "validated", "failed"; "off"
    vconfig,       \* the configuration Load returned
    vret,          \* what Validate returned
    \* ---- Client.SyncApplication: a request body across retries ----
    spc,           \* position in SyncApplication / doRequest
    sbody,         \* jsonBody, the marshalled sync request
    soffset,       \* read position of the bytes.Reader passed as body
    sattempt,      \* the loop variable attempt of doRequest
    ssent,         \* the body each attempt's request carried
    sresult,       \* resp, lastErr of doRequest
    \* ---- Change analysis with Helm rendering: the parser's working directory ----
    hpc,           \* position of each merge request analysis
    hfiles,        \* the chart files each analysis fetched
    hdisk,         \* <workDir>/chart: for each path, the analysis that wrote it
    hrender,       \* what helm template rendered for each analysis
    haccess        \* the uses made of files of the working directory

retryVars == <<client, hasToken, hasUserPass, ctxCancelled, rpc, attempt,
               timerFired, attemptLog, sleeps, refreshes, result>>

credVars == <<now, credentials, readerCount, writer, writerOwner, holdsRead,
              cpc, csvc, cret, crashed>>

listVars == <<lop, discoveryOK, catalog, lctx, lmain, wpc, widx, wlist, mu,
              collection, listLog, cancelInFlight, lresult>>

traceVars == <<tpc, tapp, terrors, tcalls, trc, tresult>>

formatVars == <<fcm, fcall, fret>>

promptVars == <<ppc, pin, psent, pret>>

impactVars == <<ipc, ichange, idiffs, iproject, iapps, inodes, iresult, iret>>

resolveVars == <<kpc, kcluster, klog, kdiscoveries>>

requestVars == <<qpc, qendpoint, qcluster, qreq, qcalls, qheld, qllm, qresp>>

topologyVars == <<mpc, mdiscovery, mfailing, mrels, mnext, mret>>

classifyVars == <<xpc, xlog>>

relatedVars == <<apc, alog>>

configVars == <<vpc, vconfig, vret>>

syncVars == <<spc, sbody, soffset, sattempt, ssent, sresult>>

helmVars == <<hpc, hfiles, hdisk, hrender, haccess>>

vars == <<retryVars, credVars, listVars, traceVars, formatVars, promptVars,
          impactVars, resolveVars, requestVars, topologyVars, classifyVars,
          relatedVars, configVars, syncVars, helmVars>>

\* What the steps of one part leave alone: the variables of the other parts.
RetryFrame == UNCHANGED <<credVars, listVars, traceVars, formatVars,
                          promptVars, impactVars, resolveVars, requestVars,
                          topologyVars, classifyVars, relatedVars,
                          configVars, syncVars, helmVars>>

CredFrame == UNCHANGED <<retryVars, listVars, traceVars, formatVars,
                         promptVars, impactVars, resolveVars, requestVars,
                         topologyVars, classifyVars, relatedVars, configVars,
                         syncVars, helmVars>>

ListFrame == UNCHANGED <<retryVars, credVars, traceVars, formatVars,
                         promptVars, impactVars, resolveVars, requestVars,
                         topologyVars, classifyVars, relatedVars, configVars,
                         syncVars, helmVars>>

TraceFrame == UNCHANGED <<retryVars, credVars, listVars, formatVars,
                          promptVars, impactVars, resolveVars, requestVars,
                          topologyVars, classifyVars, relatedVars,
                          configVars, syncVars, helmVars>>

FormatFrame == UNCHANGED <<retryVars, credVars, listVars, traceVars,
                           promptVars, impactVars, resolveVars, requestVars,
                           topologyVars, classifyVars, relatedVars,
                           configVars, syncVars, helmVars>>

PromptFrame == UNCHANGED <<retryVars, credVars, listVars, traceVars,
                           formatVars, impactVars, resolveVars, requestVars,
                           topologyVars, classifyVars, relatedVars,
                           configVars, syncVars, helmVars>>

ImpactFrame == UNCHANGED <<retryVars, credVars, listVars, traceVars,
                           formatVars, promptVars, resolveVars, requestVars,
                           topologyVars, classifyVars, relatedVars,
                           configVars, syncVars, helmVars>>

ResolveFrame == UNCHANGED <<retryVars, credVars, listVars, traceVars,
                            formatVars, promptVars, impactVars, requestVars,
                            topologyVars, classifyVars, relatedVars,
                            configVars, syncVars, helmVars>>

RequestFrame == UNCHANGED <<retryVars, credVars, listVars, traceVars,
                            formatVars, promptVars, impactVars, resolveVars,
                            topologyVars, classifyVars, relatedVars,
                            configVars, syncVars, helmVars>>

TopologyFrame == UNCHANGED <<retryVars, credVars, listVars, traceVars,
                             formatVars, promptVars, impactVars, resolveVars,
                             requestVars, classifyVars, relatedVars,
                             configVars, syncVars, helmVars>>

ClassifyFrame == UNCHANGED <<retryVars, credVars, listVars, traceVars,
                             formatVars, promptVars, impactVars, resolveVars,
                             requestVars, topologyVars, relatedVars,
                             configVars, syncVars, helmVars>>

RelatedFrame == UNCHANGED <<retryVars, credVars, listVars, traceVars,
                            formatVars, promptVars, impactVars, resolveVars,
                            requestVars, topologyVars, classifyVars,
                            configVars, syncVars, helmVars>>

ConfigFrame == UNCHANGED <<retryVars, credVars, listVars, traceVars,
                           formatVars, promptVars, impactVars, resolveVars,
                           requestVars, topologyVars, classifyVars,
                           relatedVars, syncVars, helmVars>>

SyncFrame == UNCHANGED <<retryVars, credVars, listVars, traceVars,
                         formatVars, promptVars, impactVars, resolveVars,
                         requestVars, topologyVars, classifyVars,
                         relatedVars, configVars, helmVars>>

HelmFrame == UNCHANGED <<retryVars, credVars, listVars, traceVars,
                         formatVars, promptVars, impactVars, resolveVars,
                         requestVars, topologyVars, classifyVars,
                         relatedVars, configVars, syncVars>>

-----------------------------------------------------------------------------
(* Helpers                                                                 *)

Last(s) == s[Len(s)]

Range(s) == {s[i] : i \in DOMAIN s}

RECURSIVE Pow2(_)
Pow2(n) == IF n = 0 THEN 1 ELSE 2 * Pow2(n - 1)

-----------------------------------------------------------------------------
(* The request loop: Client.doRequest, Client.attemptRequest,              *)
(* Client.shouldRetry of the ArgoCD and of the GitLab client.              *)

maxRetries == 3

baseDelay == 1

NoResp == 0

Statuses == {200, 400, 401, 403, 404, 429, 500, 502, 503, 504}

\* What httpClient.Do can do: fail without a response, or answer a status.
TransportError == [kind |-> "transport", status |-> NoResp]

Answer(st) == [kind |-> "http", status |-> st]

Outcomes == {TransportError} \cup {Answer(st) : st \in Statuses}

\* Logged for an attempt that failed in addAuth, before any request was sent.
NotSent == [kind |-> "auth", status |-> NoResp]

NoResult == [resp |-> NoResp, err |-> "none"]

\* attemptRequest after authentication succeeded: the (resp, err) pair for
\* what the upstream did. Every status >= 400 becomes (nil, err), except
\* that the ArgoCD client passes a 401 through as (resp, nil).
AttemptResult(cl, outcome) ==
    IF outcome.kind = "transport"
    THEN [resp |-> NoResp, err |-> "transport"]
    ELSE IF outcome.status >= 400 /\ ~(cl = "argocd" /\ outcome.status = 401)
         THEN [resp |-> NoResp, err |-> "http"]
         ELSE [resp |-> outcome.status, err |-> "nil"]

\* addAuth failed before any request was sent.
AuthFailure == [resp |-> NoResp, err |-> "auth"]

RetryableStatuses == {429, 500, 502, 503, 504}

shouldRetry(err, resp) ==
    \/ err # "nil" /\ resp = NoResp
    \/ resp # NoResp /\ resp \in RetryableStatuses

DelayConst(att) == baseDelay

\* delay := time.Duration(1<<uint(attempt)) * baseDelay
Delay(att) == Pow2(att) * baseDelay

OnCtxDoneKeepsLast(resp, lastErr) == [resp |-> resp, err |-> lastErr]

\* case <-ctx.Done(): return nil, ctx.Err()
OnCtxDone(resp, lastErr) == [resp |-> NoResp, err |-> "ctx"]

\* addAuth: with a token the header is set; without one the ArgoCD client
\* creates a session from username/password (sessOK: that call succeeded)
\* and stores the token; the GitLab client needs a token.
AuthOK(cl, tok, up, sessOK) ==
    \/ tok
    \/ cl = "argocd" /\ up /\ sessOK

\* One pass of the loop body of doRequest, from the call of attemptRequest to
\* the next suspension (the backoff sleep) or the return.
\*   outcome: what the upstream does with the request, if it is sent
\*   sessOK : whether a createSession call made in this pass succeeds
Attempt(outcome, sessOK) ==
    /\ RetryFrame
    /\ rpc = "attempt"
    /\ ctxCancelled => (outcome = TransportError /\ ~sessOK)
    /\ LET authed == AuthOK(client, hasToken, hasUserPass, sessOK)
           r      == IF authed THEN AttemptResult(client, outcome)
                               ELSE AuthFailure
           tok1   == hasToken \/ authed
           is401  == client = "argocd" /\ r.resp # NoResp /\ r.resp = 401
           \* the 401 branch: refresh only with username/password
           refreshed == is401 /\ hasUserPass /\ sessOK
       IN
       /\ attemptLog' = Append(attemptLog, IF authed THEN outcome ELSE NotSent)
       /\ hasToken' = tok1
       /\ IF r.err = "nil"
          THEN \* if lastErr == nil { return resp, nil }
               /\ rpc' = "done"
               /\ result' = r
               /\ UNCHANGED <<attempt, sleeps, refreshes, timerFired>>
          ELSE IF refreshed
          THEN \* UpdateArgoToken; continue
               /\ refreshes' = refreshes + 1
               /\ attempt' = attempt + 1
               /\ IF attempt + 1 < maxRetries
                  THEN rpc' = "attempt" /\ UNCHANGED result
                  ELSE rpc' = "done" /\ result' = r
               /\ UNCHANGED <<sleeps, timerFired>>
          ELSE IF attempt < maxRetries - 1 /\ shouldRetry(r.err, r.resp)
          THEN \* select { case <-time.After(delay): ... case <-ctx.Done(): ... }
               /\ rpc' = "sleep"
               /\ sleeps' = Append(sleeps, Delay(attempt))
               /\ timerFired' = FALSE
               /\ result' = r     \* resp, lastErr held across the sleep
               /\ UNCHANGED <<attempt, refreshes>>
          ELSE \* break; return resp, lastErr
               /\ rpc' = "done"
               /\ result' = r
               /\ UNCHANGED <<attempt, sleeps, refreshes, timerFired>>
    /\ UNCHANGED <<client, hasUserPass, ctxCancelled>>

\* The delay of the current sleep elapses.
TimerFires ==
    /\ RetryFrame
    /\ rpc = "sleep"
    /\ ~timerFired
    /\ timerFired' = TRUE
    /\ UNCHANGED <<client, hasToken, hasUserPass, ctxCancelled, rpc, attempt,
                   attemptLog, sleeps, refreshes, result>>

\* select takes the timer case: continue.
SleepElapsed ==
    /\ RetryFrame
    /\ rpc = "sleep"
    /\ timerFired
    /\ attempt' = attempt + 1
    /\ rpc' = "attempt"
    /\ timerFired' = FALSE
    /\ UNCHANGED <<client, hasToken, hasUserPass, ctxCancelled, attemptLog,
                   sleeps, refreshes, result>>

\* select takes the ctx.Done() case.
SleepCancelled ==
    /\ RetryFrame
    /\ rpc = "sleep"
    /\ ctxCancelled
    /\ rpc' = "done"
    /\ result' = OnCtxDone(result.resp, result.err)
    /\ UNCHANGED <<client, hasToken, hasUserPass, ctxCancelled, attempt,
                   timerFired, attemptLog, sleeps, refreshes>>

\* The caller cancels the request context.
Cancel ==
    /\ RetryFrame
    /\ rpc \in {"attempt", "sleep"}
    /\ ~ctxCancelled
    /\ ctxCancelled' = TRUE
    /\ UNCHANGED <<client, hasToken, hasUserPass, rpc, attempt, timerFired,
                   attemptLog, sleeps, refreshes, result>>

RetryInit ==
    /\ client \in {"argocd", "gitlab"}
    /\ hasToken \in BOOLEAN
    /\ hasUserPass \in BOOLEAN
    /\ ctxCancelled = FALSE
    /\ rpc = "attempt"
    /\ attempt = 0
    /\ timerFired = FALSE
    /\ attemptLog = <<>>
    /\ sleeps = <<>>
    /\ refreshes = 0
    /\ result = NoResult

RetryIdle ==
    /\ client = "argocd"
    /\ hasToken = FALSE
    /\ hasUserPass = FALSE
    /\ ctxCancelled = FALSE
    /\ rpc = "idle"
    /\ attempt = 0
    /\ timerFired = FALSE
    /\ attemptLog = <<>>
    /\ sleeps = <<>>
    /\ refreshes = 0
    /\ result = NoResult

RetryNext ==
    \/ \E outcome \in Outcomes, sessOK \in BOOLEAN : Attempt(outcome, sessOK)
    \/ TimerFires
    \/ SleepElapsed
    \/ SleepCancelled
    \/ Cancel

-----------------------------------------------------------------------------
(* CredentialProvider: GetCredentials, RefreshCredentials,                 *)
(* refreshArgoCDToken, UpdateArgoToken, over one sync.RWMutex.             *)

NTasks == 2

MaxTime == 3

\* time.Now().Add(24 * time.Hour), in clock units of 24 hours
TokenTTL == 1

Tasks == 1..NTasks

NoTask == 0

Services == {"argocd", "gitlab", "claude"}

\* The zero time.Time: the credential does not expire.
ZeroTime == 0

NoCredentials == [present |-> FALSE, token |-> FALSE, userpass |-> FALSE,
                  expiresAt |-> ZeroTime]

Cred(tok, up, exp) == [present |-> TRUE, token |-> tok, userpass |-> up,
                       expiresAt |-> exp]

\* What loadArgoCDCredentials can store: a Vault token that expires, a token
\* from the environment or the config file, username and password, or the
\* empty Credentials.
ArgoLoaded == {Cred(TRUE, FALSE, TokenTTL), Cred(TRUE, FALSE, ZeroTime),
               Cred(FALSE, TRUE, ZeroTime), Cred(FALSE, FALSE, ZeroTime)}

\* Credentials.IsExpired
IsExpired(c, t) == c.expiresAt # ZeroTime /\ t > c.expiresAt

\* A Lock call waits at these positions.
LockWait == {"g_wlock", "r_lock", "u_lock"}

\* sync.RWMutex: RLock waits while a writer holds or waits for the lock.
CanRLock == ~writer /\ \A u \in Tasks : cpc[u] \notin LockWait

\* sync.RWMutex: Lock waits for the writer and for every reader to leave.
CanLock == ~writer /\ readerCount = 0

Alive == ~crashed

\* A task calls GetCredentials(svc).
CallGetCredentials(t, svc) ==
    /\ CredFrame
    /\ Alive /\ cpc[t] = "idle"
    /\ cpc' = [cpc EXCEPT ![t] = "g_rlock"]
    /\ csvc' = [csvc EXCEPT ![t] = svc]
    /\ cret' = [cret EXCEPT ![t] = "running"]
    /\ UNCHANGED <<now, credentials, readerCount, writer, writerOwner,
                   holdsRead, crashed>>

\* A task calls UpdateArgoToken (the ArgoCD client, after createSession).
CallUpdateArgoToken(t) ==
    /\ CredFrame
    /\ Alive /\ cpc[t] = "idle"
    /\ cpc' = [cpc EXCEPT ![t] = "u_lock"]
    /\ csvc' = [csvc EXCEPT ![t] = "argocd"]
    /\ cret' = [cret EXCEPT ![t] = "running"]
    /\ UNCHANGED <<now, credentials, readerCount, writer, writerOwner,
                   holdsRead, crashed>>

\* p.mu.RLock() of GetCredentials.
AcquireRead(t) ==
    /\ CredFrame
    /\ Alive /\ cpc[t] = "g_rlock"
    /\ CanRLock
    /\ readerCount' = readerCount + 1
    /\ holdsRead' = [holdsRead EXCEPT ![t] = TRUE]
    /\ cpc' = [cpc EXCEPT ![t] = "g_check"]
    /\ UNCHANGED <<now, credentials, writer, writerOwner, csvc, cret, crashed>>

\* GetCredentials under the read lock: the lookup and the first expiry test.
\* Not found and not expired return through the deferred RUnlock; expired
\* releases the read lock and goes on to take the write lock.
Check(t) ==
    /\ CredFrame
    /\ Alive /\ cpc[t] = "g_check"
    /\ LET c == credentials[csvc[t]] IN
       /\ readerCount' = readerCount - 1
       /\ holdsRead' = [holdsRead EXCEPT ![t] = FALSE]
       /\ IF ~c.present
          THEN /\ cpc' = [cpc EXCEPT ![t] = "done"]
               /\ cret' = [cret EXCEPT ![t] = "notfound"]
          ELSE IF IsExpired(c, now)
          THEN /\ cpc' = [cpc EXCEPT ![t] = "g_wlock"]
               /\ UNCHANGED cret
          ELSE /\ cpc' = [cpc EXCEPT ![t] = "done"]
               /\ cret' = [cret EXCEPT ![t] = "creds"]
    /\ UNCHANGED <<now, credentials, writer, writerOwner, csvc, crashed>>

\* Where a task continues once its Lock call returns.
AfterLock(p) ==
    CASE p = "g_wlock" -> "g_recheck"
      [] p = "r_lock"  -> "r_body"
      [] p = "u_lock"  -> "u_body"

\* p.mu.Lock() of GetCredentials, refreshArgoCDToken and UpdateArgoToken.
AcquireWrite(t) ==
    /\ CredFrame
    /\ Alive /\ cpc[t] \in LockWait
    /\ CanLock
    /\ writer' = TRUE
    /\ writerOwner' = t
    /\ cpc' = [cpc EXCEPT ![t] = AfterLock(cpc[t])]
    /\ UNCHANGED <<now, credentials, readerCount, holdsRead, csvc, cret, crashed>>

\* RefreshCredentials: refreshArgoCDToken (which starts with p.mu.Lock()) for
\* ArgoCD, nothing for the other services.
RefreshEntry(svc) == IF svc = "argocd" THEN "r_lock" ELSE "g_unlock"

\* GetCredentials under the write lock: the second expiry test and the call
\* of RefreshCredentials.
Recheck(t) ==
    /\ CredFrame
    /\ Alive /\ cpc[t] = "g_recheck"
    /\ IF IsExpired(credentials[csvc[t]], now)
       THEN cpc' = [cpc EXCEPT ![t] = RefreshEntry(csvc[t])]
       ELSE cpc' = [cpc EXCEPT ![t] = "g_unlock"]
    /\ cret' = [cret EXCEPT ![t] = "creds"]
    /\ UNCHANGED <<now, credentials, readerCount, writer, writerOwner,
                   holdsRead, csvc, crashed>>

\* The bodies that run under a write lock taken by the function itself, each
\* ending with its deferred p.mu.Unlock():
\*   r_body: refreshArgoCDToken (it changes no credential)
\*   u_body: UpdateArgoToken
Body(t) ==
    /\ CredFrame
    /\ Alive /\ cpc[t] \in {"r_body", "u_body"}
    /\ writer' = FALSE
    /\ writerOwner' = NoTask
    /\ IF cpc[t] = "u_body"
       THEN /\ credentials' = [credentials EXCEPT !["argocd"] =
                   IF @.present
                   THEN [@ EXCEPT !.token = TRUE, !.expiresAt = now + TokenTTL]
                   ELSE Cred(TRUE, FALSE, now + TokenTTL)]
            /\ cpc' = [cpc EXCEPT ![t] = "done"]
            /\ cret' = [cret EXCEPT ![t] = "updated"]
       ELSE LET c == credentials["argocd"]
                ok == (c.token /\ ~IsExpired(c, now)) \/ c.userpass
            IN /\ UNCHANGED credentials
               /\ cpc' = [cpc EXCEPT ![t] = "g_unlock"]
               /\ cret' = [cret EXCEPT ![t] = IF ok THEN "creds" ELSE "refresh_failed"]
    /\ UNCHANGED <<now, readerCount, holdsRead, csvc, crashed>>

\* The deferred p.mu.Unlock() of GetCredentials. Unlock of an unlocked
\* RWMutex is a fatal error.
DeferredUnlock(t) ==
    /\ CredFrame
    /\ Alive /\ cpc[t] = "g_unlock"
    /\ IF writer
       THEN /\ writer' = FALSE
            /\ writerOwner' = NoTask
            /\ cpc' = [cpc EXCEPT ![t] = "g_runlock"]
            /\ UNCHANGED crashed
       ELSE /\ crashed' = TRUE
            /\ UNCHANGED <<writer, writerOwner, cpc>>
    /\ UNCHANGED <<now, credentials, readerCount, holdsRead, csvc, cret>>

\* The deferred p.mu.RUnlock() of GetCredentials, which runs after the
\* deferred Unlock. RUnlock with no reader is a fatal error.
DeferredRUnlock(t) ==
    /\ CredFrame
    /\ Alive /\ cpc[t] = "g_runlock"
    /\ IF readerCount > 0
       THEN /\ readerCount' = readerCount - 1
            /\ cpc' = [cpc EXCEPT ![t] = "done"]
            /\ UNCHANGED crashed
       ELSE /\ crashed' = TRUE
            /\ UNCHANGED <<readerCount, cpc>>
    /\ UNCHANGED <<now, credentials, writer, writerOwner, holdsRead, csvc, cret>>

\* The caller goes on; the task may make another call.
Return(t) ==
    /\ CredFrame
    /\ Alive /\ cpc[t] = "done"
    /\ cpc' = [cpc EXCEPT ![t] = "idle"]
    /\ UNCHANGED <<now, credentials, readerCount, writer, writerOwner,
                   holdsRead, csvc, cret, crashed>>

\* Time passes.
Tick ==
    /\ CredFrame
    /\ Alive /\ now < MaxTime
    /\ now' = now + 1
    /\ UNCHANGED <<credentials, readerCount, writer, writerOwner, holdsRead,
                   cpc, csvc, cret, crashed>>

\* After LoadCredentials: GitLab and Claude store a token or key that does not
\* expire; when loadClaudeCredentials found no key, the Claude entry is absent.
CredInit ==
    /\ now = 0
    /\ \E a \in ArgoLoaded, cl \in {NoCredentials, Cred(TRUE, FALSE, ZeroTime)} :
          credentials = [s \in Services |->
              CASE s = "argocd" -> a
                [] s = "gitlab" -> Cred(TRUE, FALSE, ZeroTime)
                [] OTHER -> cl]
    /\ readerCount = 0
    /\ writer = FALSE
    /\ writerOwner = NoTask
    /\ holdsRead = [t \in Tasks |-> FALSE]
    /\ cpc = [t \in Tasks |-> "idle"]
    /\ csvc = [t \in Tasks |-> "argocd"]
    /\ cret = [t \in Tasks |-> "none"]
    /\ crashed = FALSE

CredIdle ==
    /\ now = 0
    /\ credentials = [s \in Services |-> NoCredentials]
    /\ readerCount = 0
    /\ writer = FALSE
    /\ writerOwner = NoTask
    /\ holdsRead = [t \in Tasks |-> FALSE]
    /\ cpc = [t \in Tasks |-> "off"]
    /\ csvc = [t \in Tasks |-> "argocd"]
    /\ cret = [t \in Tasks |-> "none"]
    /\ crashed = FALSE

CredNext ==
    \/ \E t \in Tasks, svc \in Services : CallGetCredentials(t, svc)
    \/ \E t \in Tasks : CallUpdateArgoToken(t)
    \/ \E t \in Tasks : AcquireRead(t)
    \/ \E t \in Tasks : Check(t)
    \/ \E t \in Tasks : AcquireWrite(t)
    \/ \E t \in Tasks : Recheck(t)
    \/ \E t \in Tasks : Body(t)
    \/ \E t \in Tasks : DeferredUnlock(t)
    \/ \E t \in Tasks : DeferredRUnlock(t)
    \/ \E t \in Tasks : Return(t)
    \/ Tick

-----------------------------------------------------------------------------
(* The namespace list: Client.GetAllNamespaceResources (one goroutine per  *)
(* resource list, merging under a mutex) and                               *)
(* ResourceMapper.GetNamespaceTopology (the same lists, one after another).*)

NGroups == 2

Kinds == {"Pod", "Event", "Node", "Binding", "Deployment"}

\* An APIResource. The name is its path: <<"pods">>, <<"pods", "log">>.
Res(name, kind, verbs, namespaced) ==
    [name |-> name, kind |-> kind, verbs |-> verbs, namespaced |-> namespaced]

\* An APIResourceList: gvOK says that its GroupVersion parses.
Group(gvOK, resources) == [gvOK |-> gvOK, resources |-> resources]

\* The resource lists discovery can return: the core group, events.k8s.io
\* (which serves the Event kind as well), a list whose GroupVersion does not
\* parse, and an aggregated API that lists a subresource.
GroupChoices ==
    { Group(TRUE,  << Res(<<"nodes">>, "Node", {"get", "list"}, FALSE),
                      Res(<<"bindings">>, "Binding", {"create"}, TRUE),
                      Res(<<"pods">>, "Pod", {"get", "list"}, TRUE),
                      Res(<<"pods", "log">>, "Pod", {"get"}, TRUE),
                      Res(<<"events">>, "Event", {"get", "list"}, TRUE) >>),
      Group(TRUE,  << Res(<<"events">>, "Event", {"get", "list"}, TRUE) >>),
      Group(FALSE, << Res(<<"pods">>, "Pod", {"get", "list"}, TRUE) >>),
      Group(TRUE,  << Res(<<"deployments", "scale">>, "Deployment", {"get", "list"}, TRUE) >>) }

\* Discovery returns each group once.
Catalogs == {c \in [1..NGroups -> GroupChoices] :
                \A g, h \in 1..NGroups : g # h => c[g] # c[h]}

Workers == 1..NGroups

\* What a List call can return as list.Items (the names of the objects).
ItemLists == {<<>>, <<"a">>, <<"b", "a">>}

ListError == [ok |-> FALSE, items |-> <<>>]

ListOutcomes == {ListError} \cup {[ok |-> TRUE, items |-> q] : q \in ItemLists}

\* The objects of one returned list: the name with the resource that served it.
Tagged(g, i, items) == [k \in DOMAIN items |-> <<g, i, items[k]>>]

\* The filters before the List call: the resource can be listed and is
\* namespaced, and (GetAllNamespaceResources only) is no subresource.
Listable(op, r) ==
    /\ "list" \in r.verbs
    /\ r.namespaced
    /\ op = "collect" => Len(r.name) = 1

\* The first resource at or after position from that is listed; 0 if none.
RECURSIVE NextListable(_, _, _)
NextListable(op, rs, from) ==
    IF from > Len(rs) THEN 0
    ELSE IF Listable(op, rs[from]) THEN from
    ELSE NextListable(op, rs, from + 1)

\* GetNamespaceTopology runs the resource lists one after another.
Turn(g) == lop = "collect" \/ \A h \in Workers : h < g => wpc[h] = "exit"

ReturnValueStrict(log) == IF \E rec \in log : ~rec.ok THEN "err" ELSE "ok"

\* return collection, nil  /  return topology, nil
ReturnValue(log) == "ok"

\* The worker goes on to its next List call, or ends.
Advance(g, from) ==
    LET n == NextListable(lop, catalog[g].resources, from) IN
    /\ wpc' = [wpc EXCEPT ![g] = IF n = 0 THEN "exit" ELSE "list"]
    /\ widx' = [widx EXCEPT ![g] = n]

\* ServerPreferredResources: on error the operation returns it; otherwise
\* the goroutines (or the loop) start.
Discover ==
    /\ ListFrame
    /\ lmain = "discover"
    /\ IF discoveryOK
       THEN /\ lmain' = "wait"
            /\ wpc' = [g \in Workers |-> "start"]
            /\ UNCHANGED lresult
       ELSE /\ lmain' = "done"
            /\ lresult' = "err"
            /\ UNCHANGED wpc
    /\ UNCHANGED <<lop, discoveryOK, catalog, lctx, widx, wlist, mu, collection,
                   listLog, cancelInFlight>>

\* schema.ParseGroupVersion, then on to the first List call.
WorkerStart(g) ==
    /\ ListFrame
    /\ lmain = "wait" /\ wpc[g] = "start" /\ Turn(g)
    /\ IF catalog[g].gvOK
       THEN Advance(g, 1)
       ELSE wpc' = [wpc EXCEPT ![g] = "exit"] /\ UNCHANGED widx
    /\ UNCHANGED <<lop, discoveryOK, catalog, lctx, lmain, wlist, mu, collection,
                   listLog, cancelInFlight, lresult>>

\* A List call returns. With the context cancelled it returns an error. An
\* error is logged and the resource skipped; GetAllNamespaceResources skips
\* an empty list and takes the others to the merge; GetNamespaceTopology
\* stores the names of a non-empty list.
ListReturn(g, out) ==
    /\ ListFrame
    /\ lmain = "wait" /\ wpc[g] = "list"
    /\ lctx => out = ListError
    /\ LET r == catalog[g].resources[widx[g]]
           items == Tagged(g, widx[g], out.items)
       IN
       /\ listLog' = listLog \cup
              {[g |-> g, i |-> widx[g], kind |-> r.kind, ok |-> out.ok, items |-> items]}
       /\ IF ~out.ok \/ out.items = <<>>
          THEN Advance(g, widx[g] + 1) /\ UNCHANGED <<wlist, collection>>
          ELSE IF lop = "collect"
          THEN /\ wpc' = [wpc EXCEPT ![g] = "merge"]
               /\ wlist' = [wlist EXCEPT ![g] = items]
               /\ UNCHANGED <<widx, collection>>
          ELSE /\ collection' = [collection EXCEPT ![r.kind] = items]
               /\ Advance(g, widx[g] + 1)
               /\ UNCHANGED wlist
    /\ UNCHANGED <<lop, discoveryOK, catalog, lctx, lmain, mu, cancelInFlight, lresult>>

\* mu.Lock()
MergeLock(g) ==
    /\ ListFrame
    /\ wpc[g] = "merge" /\ mu = NoTask
    /\ mu' = g
    /\ wpc' = [wpc EXCEPT ![g] = "store"]
    /\ UNCHANGED <<lop, discoveryOK, catalog, lctx, lmain, widx, wlist, collection,
                   listLog, cancelInFlight, lresult>>

\* collection.Resources[r.Kind] = list.Items; mu.Unlock()
MergeStore(g) ==
    /\ ListFrame
    /\ wpc[g] = "store" /\ mu = g
    /\ collection' = [collection EXCEPT ![catalog[g].resources[widx[g]].kind] = wlist[g]]
    /\ mu' = NoTask
    /\ wlist' = [wlist EXCEPT ![g] = <<>>]
    /\ Advance(g, widx[g] + 1)
    /\ UNCHANGED <<lop, discoveryOK, catalog, lctx, lmain, listLog, cancelInFlight,
                   lresult>>

\* wg.Wait() returns (the loop ends) and the operation returns.
Finish ==
    /\ ListFrame
    /\ lmain = "wait" /\ \A g \in Workers : wpc[g] = "exit"
    /\ lmain' = "done"
    /\ lresult' = ReturnValue(listLog)
    /\ UNCHANGED <<lop, discoveryOK, catalog, lctx, wpc, widx, wlist, mu, collection,
                   listLog, cancelInFlight>>

\* The caller cancels the context.
CancelList ==
    /\ ListFrame
    /\ lmain \in {"discover", "wait"} /\ ~lctx
    /\ lctx' = TRUE
    /\ cancelInFlight' = \E g \in Workers : wpc[g] = "list"
    /\ UNCHANGED <<lop, discoveryOK, catalog, lmain, wpc, widx, wlist, mu, collection,
                   listLog, lresult>>

ListInit ==
    /\ lop \in {"collect", "topology"}
    /\ discoveryOK \in BOOLEAN
    /\ catalog \in Catalogs
    /\ ~discoveryOK => catalog = [g \in Workers |-> Group(FALSE, <<>>)]
    /\ lctx = FALSE
    /\ lmain = "discover"
    /\ wpc = [g \in Workers |-> "unborn"]
    /\ widx = [g \in Workers |-> 0]
    /\ wlist = [g \in Workers |-> <<>>]
    /\ mu = NoTask
    /\ collection = [k \in Kinds |-> <<>>]
    /\ listLog = {}
    /\ cancelInFlight = FALSE
    /\ lresult = "none"

ListIdle ==
    /\ lop = "off"
    /\ discoveryOK = FALSE
    /\ catalog = <<>>
    /\ lctx = FALSE
    /\ lmain = "off"
    /\ wpc = <<>>
    /\ widx = <<>>
    /\ wlist = <<>>
    /\ mu = NoTask
    /\ collection = <<>>
    /\ listLog = {}
    /\ cancelInFlight = FALSE
    /\ lresult = "none"

ListNext ==
    \/ Discover
    \/ \E g \in Workers : WorkerStart(g)
    \/ \E g \in Workers, out \in ListOutcomes : ListReturn(g, out)
    \/ \E g \in Workers : MergeLock(g)
    \/ \E g \in Workers : MergeStore(g)
    \/ Finish
    \/ CancelList

-----------------------------------------------------------------------------
(* GitOpsCorrelator.TraceResourceDeployment: eight upstream calls, each    *)
(* one step; a failed call appends to errors and the trace goes on.        *)

\* The sizes of the lists the upstream calls can return.
MaxReturned == 6

\* history = history[:5], commits = commits[:5]
HistoryCap == 5

Sizes == {0, 1, MaxReturned}

\* The application found: whether its RepoURL is empty, yields no project
\* path, or yields one; and the environment extracted from it ("" if none).
Apps == [repo : {"empty", "nopath", "gitlab"}, env : {"", "production"}]

NoApp == [repo |-> "empty", env |-> ""]

EmptyContext ==
    [apiVersion |-> FALSE, events |-> FALSE, argoApp |-> FALSE, history |-> 0,
     project |-> FALSE, lastPipeline |-> FALSE, lastDeployment |-> FALSE,
     commits |-> 0, errors |-> <<>>]

\* The message appended for a failed call.
ErrMsg(call) ==
    CASE call = "get"         -> "Failed to get Kubernetes resource"
      [] call = "events"      -> "Failed to get resource events"
      [] call = "argo"        -> "Failed to find ArgoCD applications"
      [] call = "history"     -> "Failed to get application history"
      [] call = "project"     -> "Failed to get GitLab project"
      [] call = "pipelines"   -> "Failed to list pipelines"
      [] call = "deployments" -> "Failed to find deployments"
      [] call = "commits"     -> "Failed to find recent changes"

AddErrorDropped(errs, call) == errs

\* errors = append(errors, errMsg)
AddError(errs, call) == Append(errs, ErrMsg(call))

Cap(n) == IF n > HistoryCap THEN HistoryCap ELSE n

\* One upstream call returns: it is logged, a failure is appended to errors,
\* and the trace goes on to the call named next; at "done" errors is copied
\* into the ResourceContext and (resourceContext, nil) is returned.
Called(call, ok, next, rc) ==
    LET errs == IF ok THEN terrors ELSE AddError(terrors, call) IN
    /\ TraceFrame
    /\ tpc = call
    /\ tcalls' = Append(tcalls, [call |-> call, ok |-> ok])
    /\ terrors' = errs
    /\ tpc' = next
    /\ IF next = "done"
       THEN trc' = [rc EXCEPT !.errors = errs] /\ tresult' = "nil"
       ELSE trc' = rc /\ UNCHANGED tresult

\* c.k8sClient.GetResource
GetResource(ok) ==
    /\ Called("get", ok, IF ok THEN "events" ELSE "argo",
              IF ok THEN [trc EXCEPT !.apiVersion = TRUE] ELSE trc)
    /\ UNCHANGED tapp

\* c.k8sClient.GetResourceEvents
GetResourceEvents(ok) ==
    /\ Called("events", ok, "argo", IF ok THEN [trc EXCEPT !.events = TRUE] ELSE trc)
    /\ UNCHANGED tapp

\* c.argoClient.FindApplicationsByResource: n applications, the first is app
FindApplicationsByResource(ok, n, app) ==
    /\ n = 0 => app = NoApp
    /\ ~ok => n = 0
    /\ Called("argo", ok, IF ok /\ n > 0 THEN "history" ELSE "done",
              IF ok /\ n > 0 THEN [trc EXCEPT !.argoApp = TRUE] ELSE trc)
    /\ tapp' = app

\* Where the trace goes after the history: to the GitLab project when the
\* RepoURL is not empty and a project path is extracted from it.
AfterHistory(app) == IF app.repo = "gitlab" THEN "project" ELSE "done"

\* c.argoClient.GetApplicationHistory
GetApplicationHistory(ok, n) ==
    /\ ~ok => n = 0
    /\ Called("history", ok, AfterHistory(tapp),
              IF ok THEN [trc EXCEPT !.history = Cap(n)] ELSE trc)
    /\ UNCHANGED tapp

\* c.gitlabClient.GetProjectByPath
GetProjectByPath(ok) ==
    /\ Called("project", ok, IF ok THEN "pipelines" ELSE "done",
              IF ok THEN [trc EXCEPT !.project = TRUE] ELSE trc)
    /\ UNCHANGED tapp

\* c.gitlabClient.ListPipelines
ListPipelines(ok, n) ==
    /\ ~ok => n = 0
    /\ Called("pipelines", ok, IF tapp.env # "" THEN "deployments" ELSE "commits",
              IF ok /\ n > 0 THEN [trc EXCEPT !.lastPipeline = TRUE] ELSE trc)
    /\ UNCHANGED tapp

\* c.gitlabClient.FindRecentDeployments
FindRecentDeployments(ok, n) ==
    /\ ~ok => n = 0
    /\ Called("deployments", ok, "commits",
              IF ok /\ n > 0 THEN [trc EXCEPT !.lastDeployment = TRUE] ELSE trc)
    /\ UNCHANGED tapp

\* c.gitlabClient.FindRecentChanges
FindRecentChanges(ok, n) ==
    /\ ~ok => n = 0
    /\ Called("commits", ok, "done",
              IF ok THEN [trc EXCEPT !.commits = Cap(n)] ELSE trc)
    /\ UNCHANGED tapp

TraceInit ==
    /\ tpc = "get"
    /\ tapp = NoApp
    /\ terrors = <<>>
    /\ tcalls = <<>>
    /\ trc = EmptyContext
    /\ tresult = "none"

TraceIdle ==
    /\ tpc = "off"
    /\ tapp = NoApp
    /\ terrors = <<>>
    /\ tcalls = <<>>
    /\ trc = EmptyContext
    /\ tresult = "none"

TraceNext ==
    \/ \E ok \in BOOLEAN : GetResource(ok)
    \/ \E ok \in BOOLEAN : GetResourceEvents(ok)
    \/ \E ok \in BOOLEAN, n \in Sizes, app \in Apps : FindApplicationsByResource(ok, n, app)
    \/ \E ok \in BOOLEAN, n \in Sizes : GetApplicationHistory(ok, n)
    \/ \E ok \in BOOLEAN : GetProjectByPath(ok)
    \/ \E ok \in BOOLEAN, n \in Sizes : ListPipelines(ok, n)
    \/ \E ok \in BOOLEAN, n \in Sizes : FindRecentDeployments(ok, n)
    \/ \E ok \in BOOLEAN, n \in Sizes : FindRecentChanges(ok, n)

-----------------------------------------------------------------------------
(* ContextManager (internal/mcp/context.go) and TruncateContextSmartly.    *)
(* A string is a sequence of one-character strings, so that lengths,       *)
(* slices and the search for "." are those of the Go code.                 *)

\* The one character U+0060 (grave accent) of the code fences.
Backquote == "U+0060"

\* truncateMsg := "\n\n[...Content truncated...]\n\n"
truncateMsg ==
    <<"\n", "\n", "[", ".", ".", ".", "C", "o", "n", "t", "e", "n", "t",
      " ", "t", "r", "u", "n", "c", "a", "t", "e", "d", ".", ".", ".", "]",
      "\n", "\n">>

\* "# Kubernetes Resource: %s/%s\n"
HeaderPrefix ==
    <<"#", " ", "K", "u", "b", "e", "r", "n", "e", "t", "e", "s", " ", "R",
      "e", "s", "o", "u", "r", "c", "e", ":", " ">>

\* "Namespace: %s\n"
NamespacePrefix ==
    <<"N", "a", "m", "e", "s", "p", "a", "c", "e", ":", " ">>

\* "API Version: %s\n\n"
APIVersionPrefix ==
    <<"A", "P", "I", " ", "V", "e", "r", "s", "i", "o", "n", ":", " ">>

\* "## Resource Details\n" and the opening fence of a json block
ResourceDetailsOpen ==
    <<"#", "#", " ", "R", "e", "s", "o", "u", "r", "c", "e", " ", "D", "e",
      "t", "a", "i", "l", "s", "\n", Backquote, Backquote, Backquote, "j", "s", "o", "n",
      "\n">>

\* the closing fence of the json block and an empty line
ResourceDetailsClose ==
    <<"\n", Backquote, Backquote, Backquote, "\n", "\n">>

\* "## Errors in Data Collection\n"
ErrorsHeading ==
    <<"#", "#", " ", "E", "r", "r", "o", "r", "s", " ", "i", "n", " ", "D",
      "a", "t", "a", " ", "C", "o", "l", "l", "e", "c", "t", "i", "o", "n",
      "\n">>

\* "# Kubernetes GitOps Context (%d resources)\n\n", up to %d
CombinedPrefix ==
    <<"#", " ", "K", "u", "b", "e", "r", "n", "e", "t", "e", "s", " ", "G",
      "i", "t", "O", "p", "s", " ", "C", "o", "n", "t", "e", "x", "t", " ",
      "(">>

\* "# Kubernetes GitOps Context (%d resources)\n\n", after %d
CombinedSuffix ==
    <<" ", "r", "e", "s", "o", "u", "r", "c", "e", "s", ")", "\n", "\n">>

\* "--- RESOURCE %d/%d ---\n", up to the first %d
ResourcePrefix ==
    <<"-", "-", "-", " ", "R", "E", "S", "O", "U", "R", "C", "E", " ">>

\* "--- RESOURCE %d/%d ---\n", after the second %d
ResourceSuffix ==
    <<" ", "-", "-", "-", "\n">>

\* "------------------------\n\n"
ResourceEnd ==
    <<"-", "-", "-", "-", "-", "-", "-", "-", "-", "-", "-", "-", "-", "-",
      "-", "-", "-", "-", "-", "-", "-", "-", "-", "-", "\n", "\n">>

NL == <<"\n">>

Digits == <<"0", "1", "2", "3", "4", "5", "6", "7", "8", "9">>

\* %d of a non-negative integer
RECURSIVE Itoa(_)
Itoa(n) == IF n < 10 THEN <<Digits[n + 1]>> ELSE Itoa(n \div 10) \o <<Digits[(n % 10) + 1]>>

\* s[lo:hi]; the caller has checked 0 <= lo <= hi <= len(s)
Slice(s, lo, hi) == SubSeq(s, lo + 1, hi)

Positions(s, c) == {i \in 1..Len(s) : s[i] = c}

\* strings.Index(s, c): the first position of c, from 0, or -1
Index(s, c) ==
    IF Positions(s, c) = {} THEN -1
    ELSE (CHOOSE i \in Positions(s, c) : \A j \in Positions(s, c) : i <= j) - 1

\* strings.LastIndex(s, c): the last position of c, from 0, or -1
LastIndex(s, c) ==
    IF Positions(s, c) = {} THEN -1
    ELSE (CHOOSE i \in Positions(s, c) : \A j \in Positions(s, c) : i >= j) - 1

\* int(float64(x) * 0.t): the conversion truncates toward zero
TruncTenths(x, t) == IF x >= 0 THEN (x * t) \div 10 ELSE -(((-x) * t) \div 10)

\* What a call produces: a document, or a run-time panic.
Returned(doc) == [panic |-> FALSE, doc |-> doc]

Panic == [panic |-> TRUE, doc |-> <<>>]

\* utils.TruncateContextSmartly; a slice bound below zero or beyond the
\* string is a run-time panic (slice bounds out of range).
TruncateContextSmartly(content, maxSize) ==
    IF Len(content) <= maxSize THEN Returned(content)
    ELSE
      LET reservedSize == Len(truncateMsg)
          beginSize == TruncTenths(maxSize - reservedSize, 6)
          endSize == TruncTenths(maxSize - reservedSize, 4)
      IN  IF beginSize < 0 \/ beginSize > Len(content)
             \/ endSize < 0 \/ endSize > Len(content)
          THEN Panic
          ELSE
            LET beginPart0 == Slice(content, 0, beginSize)
                lastPeriod == LastIndex(beginPart0, ".")
                beginPart == IF lastPeriod > 0
                             THEN Slice(beginPart0, 0, lastPeriod + 1)
                             ELSE beginPart0
                endPart0 == Slice(content, Len(content) - endSize, Len(content))
                firstPeriod == Index(endPart0, ".")
                endPart == IF firstPeriod > 0
                           THEN Slice(endPart0, firstPeriod + 1, Len(endPart0))
                           ELSE endPart0
            IN  Returned(beginPart \o truncateMsg \o endPart)

\* maxContextSize = 100000 when the argument is not positive
DefaultMaxContextSize == 100000

\* NewContextManager(100000, ...) in NewProtocolHandler
HandlerMaxContextSize == 100000

\* NewContextManager: the limit the manager keeps
NewContextManager(maxContextSize) ==
    IF maxContextSize <= 0 THEN DefaultMaxContextSize ELSE maxContextSize

\* The lines "- %s\n" of the section Errors in Data Collection
RECURSIVE ErrorLines(_)
ErrorLines(errs) ==
    IF errs = <<>> THEN <<>>
    ELSE <<"-", " ">> \o Head(errs) \o NL \o ErrorLines(Tail(errs))

\* The document before the size check. The contexts taken as input have no
\* metadata, application, project, events or related resources, so those
\* sections of the document are absent.
Formatted(rc) ==
    HeaderPrefix \o rc.Kind \o <<"/">> \o rc.Name \o NL
    \o (IF rc.Namespace # <<>> THEN NamespacePrefix \o rc.Namespace \o NL ELSE <<>>)
    \o APIVersionPrefix \o rc.APIVersion \o NL \o NL
    \o (IF rc.ResourceData # <<>>
        THEN ResourceDetailsOpen \o rc.ResourceData \o ResourceDetailsClose
        ELSE <<>>)
    \o (IF Len(rc.Errors) > 0 THEN ErrorsHeading \o ErrorLines(rc.Errors) \o NL ELSE <<>>)

\* What FormatResourceContext produces under the limit maxContextSize
FormatDoc(rc, maxContextSize) ==
    IF Len(Formatted(rc)) > maxContextSize
    THEN TruncateContextSmartly(Formatted(rc), maxContextSize)
    ELSE Returned(Formatted(rc))

\* The loop of CombineContexts without the line that closes a resource
RECURSIVE CombineFromUnclosed(_, _, _)
CombineFromUnclosed(rcs, i, maxContextSize) ==
    IF i > Len(rcs) THEN Returned(<<>>)
    ELSE
      LET one == FormatDoc(rcs[i], maxContextSize)
          rest == CombineFromUnclosed(rcs, i + 1, maxContextSize)
      IN  IF one.panic \/ rest.panic THEN Panic
          ELSE Returned(ResourcePrefix \o Itoa(i) \o <<"/">> \o Itoa(Len(rcs))
                        \o ResourceSuffix \o one.doc \o rest.doc)

\* The loop of CombineContexts from resource i on; a panic inside
\* FormatResourceContext unwinds through CombineContexts.
RECURSIVE CombineFrom(_, _, _)
CombineFrom(rcs, i, maxContextSize) ==
    IF i > Len(rcs) THEN Returned(<<>>)
    ELSE
      LET one == FormatDoc(rcs[i], maxContextSize)
          rest == CombineFrom(rcs, i + 1, maxContextSize)
      IN  IF one.panic \/ rest.panic THEN Panic
          ELSE Returned(ResourcePrefix \o Itoa(i) \o <<"/">> \o Itoa(Len(rcs))
                        \o ResourceSuffix \o one.doc \o ResourceEnd \o rest.doc)

\* What CombineContexts produces under the limit maxContextSize
CombineDoc(rcs, maxContextSize) ==
    LET body == CombineFrom(rcs, 1, maxContextSize)
        combinedContext == CombinedPrefix \o Itoa(Len(rcs)) \o CombinedSuffix \o body.doc
    IN  IF body.panic THEN Panic
        ELSE IF Len(combinedContext) > maxContextSize
             THEN TruncateContextSmartly(combinedContext, maxContextSize)
             ELSE Returned(combinedContext)

\* The largest limit configured, and the most contexts combined.
MaxLimit == 60

MaxCombined == 2

Limits == (-1)..MaxLimit

\* rc.Name
ContextNames ==
    {<<"a">>,
     <<"w", "e", "b", ".", "1">>}

\* rc.Namespace
ContextNamespaces ==
    {<<>>,
     <<"n", "s">>}

\* rc.APIVersion
ContextAPIVersions ==
    {<<>>,
     <<"v", "1">>}

\* rc.ResourceData
ContextData ==
    {<<>>,
     <<"{", "\"", "a", "\"", ":", "1", ".", "5", "}">>}

\* rc.Errors
ContextErrors ==
    {<<>>,
     <<<<"t", "i", "m", "e", "o", "u", "t", ".">>>>,
     <<<<"x">>,
       <<"y", ".", "z">>>>}

ContextKind ==
    <<"P", "o", "d">>

ResourceContexts ==
    [Kind : {ContextKind}, Name : ContextNames, Namespace : ContextNamespaces,
     APIVersion : ContextAPIVersions, ResourceData : ContextData,
     Errors : ContextErrors]

\* The contexts handed to CombineContexts: one short, one long.
CombinedContexts ==
    {rc \in ResourceContexts :
        /\ rc.Namespace = <<>> /\ rc.APIVersion = <<>>
        /\ Len(rc.Name) = 1
        /\ (rc.ResourceData = <<>>) = (rc.Errors = <<>>)
        /\ Len(rc.Errors) <= 1}

ContextLists == UNION {[1..n -> CombinedContexts] : n \in 0..MaxCombined}

NoCall == [op |-> "none", rcs |-> <<>>]

\* ProtocolHandler.WithMaxContextSize: a new manager with the limit size
WithMaxContextSize(size) ==
    /\ FormatFrame
    /\ fcm > 0
    /\ fcm' = NewContextManager(size)
    /\ fcall' = NoCall
    /\ fret' = Returned(<<>>)

\* cm.FormatResourceContext(rc)
FormatResourceContext(rc) ==
    /\ FormatFrame
    /\ fcm > 0
    /\ fcall' = [op |-> "format", rcs |-> <<rc>>]
    /\ fret' = FormatDoc(rc, fcm)
    /\ UNCHANGED fcm

\* cm.CombineContexts(ctx, resourceContexts)
CombineContexts(rcs) ==
    /\ FormatFrame
    /\ fcm > 0
    /\ fcall' = [op |-> "combine", rcs |-> rcs]
    /\ fret' = CombineDoc(rcs, fcm)
    /\ UNCHANGED fcm

FormatInit ==
    /\ fcm = NewContextManager(HandlerMaxContextSize)
    /\ fcall = NoCall
    /\ fret = Returned(<<>>)

FormatIdle ==
    /\ fcm = 0
    /\ fcall = NoCall
    /\ fret = Returned(<<>>)

FormatNext ==
    \/ \E size \in Limits : WithMaxContextSize(size)
    \/ \E rc \in ResourceContexts : FormatResourceContext(rc)
    \/ \E rcs \in ContextLists : CombineContexts(rcs)

-----------------------------------------------------------------------------
(* claude.ProtocolHandler.GetCompletion: the prompt budget. Prompts of the  *)
(* size of the budget are kept as a length and the positions of their "."   *)
(* characters, which is all that the two truncation functions look at.      *)

\* const maxPromptSize = 100000
maxPromptSize == 100000

\* maxPromptSize - len(systemPrompt) - 100 // Buffer
promptBuffer == 100

\* if maxUserPromptSize < 1000
minUserPromptSize == 1000

\* truncateMsg of TruncateContent
truncateNote ==
    <<"\n", "\n", "[", "N", "o", "t", "e", ":", " ", "C", "o", "n", "t",
      "e", "n", "t", " ", "w", "a", "s", " ", "t", "r", "u", "n", "c", "a",
      "t", "e", "d", " ", "d", "u", "e", " ", "t", "o", " ", "l", "e", "n",
      "g", "t", "h", " ", "l", "i", "m", "i", "t", "a", "t", "i", "o", "n",
      "s", ".", "]">>

\* The longest prompt handed in, and how far from either end of a prompt
\* a "." is placed.
MaxPrompt == 200000

PeriodOffset == 300

Text(len, periods) == [len |-> len, periods |-> periods]

\* What a truncation produces: the length of the string, or a panic.
Kept(len) == [panic |-> FALSE, len |-> len]

TextPanic == [panic |-> TRUE, len |-> 0]

\* utils.TruncateContent: content[:maxSize-reservedSize] + truncateMsg
TruncateContent(content, maxSize) ==
    IF content.len <= maxSize THEN Kept(content.len)
    ELSE
      LET reservedSize == Len(truncateNote) IN
      IF maxSize - reservedSize < 0 \/ maxSize - reservedSize > content.len
      THEN TextPanic
      ELSE Kept((maxSize - reservedSize) + Len(truncateNote))

Least(S) == CHOOSE i \in S : \A j \in S : i <= j

Greatest(S) == CHOOSE i \in S : \A j \in S : i >= j

\* utils.TruncateContextSmartly on a text kept as length and "." positions
TruncateTextSmartly(content, maxSize) ==
    IF content.len <= maxSize THEN Kept(content.len)
    ELSE
      LET reservedSize == Len(truncateMsg)
          beginSize == TruncTenths(maxSize - reservedSize, 6)
          endSize == TruncTenths(maxSize - reservedSize, 4)
      IN  IF beginSize < 0 \/ beginSize > content.len
             \/ endSize < 0 \/ endSize > content.len
          THEN TextPanic
          ELSE
            LET inBegin == {q \in content.periods : q < beginSize}
                lastPeriod == IF inBegin = {} THEN -1 ELSE Greatest(inBegin)
                beginLen == IF lastPeriod > 0 THEN lastPeriod + 1 ELSE beginSize
                endStart == content.len - endSize
                inEnd == {q - endStart : q \in {p \in content.periods : p >= endStart}}
                firstPeriod == IF inEnd = {} THEN -1 ELSE Least(inEnd)
                endLen == IF firstPeriod > 0 THEN endSize - (firstPeriod + 1) ELSE endSize
            IN  Kept(beginLen + Len(truncateMsg) + endLen)

MaxUserPromptSizeWhole(sysLen) == maxPromptSize

\* maxUserPromptSize := maxPromptSize - len(systemPrompt) - 100
MaxUserPromptSize(sysLen) == maxPromptSize - sysLen - promptBuffer

\* The lengths of the two messages GetCompletion builds from its arguments.
Messages(systemPrompt, userPrompt) ==
    IF systemPrompt.len + userPrompt.len > maxPromptSize
    THEN
      LET tooLarge == MaxUserPromptSize(systemPrompt.len) < minUserPromptSize
          sys == IF tooLarge
                 THEN TruncateContent(systemPrompt, maxPromptSize \div 2)
                 ELSE Kept(systemPrompt.len)
          maxUserPromptSize == IF tooLarge
                               THEN (maxPromptSize \div 2) - promptBuffer
                               ELSE MaxUserPromptSize(systemPrompt.len)
          usr == TruncateTextSmartly(userPrompt, maxUserPromptSize)
      IN  [panic |-> sys.panic \/ usr.panic, sys |-> sys.len, usr |-> usr.len]
    ELSE [panic |-> FALSE, sys |-> systemPrompt.len, usr |-> userPrompt.len]

PromptLens ==
    {0, minUserPromptSize,
     (maxPromptSize \div 2) - promptBuffer, (maxPromptSize \div 2) + 1,
     maxPromptSize - minUserPromptSize - promptBuffer,
     maxPromptSize - minUserPromptSize - promptBuffer + 1,
     maxPromptSize, maxPromptSize + 1, MaxPrompt}

PeriodSpots(len) ==
    {0, 1, PeriodOffset, len - PeriodOffset, len - 1} \cap (0..(len - 1))

SystemPrompts == {Text(n, {}) : n \in PromptLens}

UserPrompts == UNION {{Text(n, ps) : ps \in SUBSET PeriodSpots(n)} : n \in PromptLens}

NoPrompts == [sys |-> Text(0, {}), usr |-> Text(0, {})]

NoMessages == [panic |-> FALSE, sys |-> 0, usr |-> 0]

\* GetCompletion up to h.client.Complete(ctx, messages): the prompts are cut
\* to the budget and the two messages are handed to the client.
GetCompletion(systemPrompt, userPrompt) ==
    /\ PromptFrame
    /\ ppc = "idle"
    /\ pin' = [sys |-> systemPrompt, usr |-> userPrompt]
    /\ psent' = Messages(systemPrompt, userPrompt)
    /\ ppc' = IF Messages(systemPrompt, userPrompt).panic THEN "panic" ELSE "sent"
    /\ UNCHANGED pret

\* Client.Complete returns; GetCompletion returns the response or wraps the error.
Complete(ok) ==
    /\ PromptFrame
    /\ ppc = "sent"
    /\ pret' = IF ok THEN "response" ELSE "error"
    /\ ppc' = "done"
    /\ UNCHANGED <<pin, psent>>

PromptInit ==
    /\ ppc = "idle"
    /\ pin = NoPrompts
    /\ psent = NoMessages
    /\ pret = "none"

PromptIdle ==
    /\ ppc = "off"
    /\ pin = NoPrompts
    /\ psent = NoMessages
    /\ pret = "none"

PromptNext ==
    \/ \E systemPrompt \in SystemPrompts, userPrompt \in UserPrompts :
          GetCompletion(systemPrompt, userPrompt)
    \/ \E ok \in BOOLEAN : Complete(ok)

-----------------------------------------------------------------------------
(* Change impact: GitOpsCorrelator.FindResourcesAffectedByCommit and        *)
(* GitOpsCorrelator.AnalyzeMergeRequest (correlator/gitops.go).             *)

\* The most applications ListApplications returns.
MaxApps == 2

\* strings.HasPrefix
HasPrefix(s, prefix) ==
    Len(prefix) <= Len(s) /\ SubSeq(s, 1, Len(prefix)) = prefix

\* The lower-case form of the names that occur, for strings.EqualFold
Fold(s) ==
    CASE s = "Grp/Proj" -> "grp/proj"
      [] s = "Deployment" -> "deployment"
      [] s = "Service" -> "service"
      [] s = "Pod" -> "pod"
      [] s = "Pods" -> "pods"
      [] s = "Widget" -> "widget"
      [] OTHER -> s

EqualFold(s, t) == Fold(s) = Fold(t)

\* Nodes of a resource tree
TreeNode(kind, name, namespace) == [Kind |-> kind, Name |-> name, Namespace |-> namespace]

TreeNodeLists ==
    {<<>>,
     <<TreeNode("Deployment", "web", "prod"), TreeNode("Service", "web", "prod")>>,
     <<TreeNode("", "web", "prod"), TreeNode("Pod", "", "prod"),
       TreeNode("Deployment", "web", "prod"), TreeNode("Deployment", "web", "prod")>>}

\* app.Spec.Source.Path: "", "a/" and "a"
SourcePaths == {<<>>, <<"a", "/">>, <<"a">>}

\* Paths of changed files: "a/x", "b/x", "a"
FilePaths == {<<"a", "/", "x">>, <<"b", "/", "x">>, <<"a">>}

\* An application: the project path extracted from its RepoURL, its source
\* path, and what GetResourceTree answers for it.
ImpactApps ==
    [project : {"Grp/Proj", "other/proj"}, path : SourcePaths,
     treeOK : {TRUE}, nodes : TreeNodeLists]
    \cup [project : {"Grp/Proj", "other/proj"}, path : SourcePaths,
          treeOK : {FALSE}, nodes : {<<>>}]

AppLists == UNION {[1..n -> ImpactApps] : n \in 0..MaxApps}

Diff(new, old) == [NewPath |-> new, OldPath |-> old]

DiffLists ==
    {<<>>,
     <<Diff(<<"a", "/", "x">>, <<"a", "/", "x">>)>>,
     <<Diff(<<"a">>, <<"a">>), Diff(<<"b", "/", "x">>, <<"a", "/", "x">>)>>,
     <<Diff(<<"a", "b", "/", "x">>, <<"a", "b", "/", "x">>)>>}

FileLists == {<<>>, <<<<"b", "/", "x">>, <<"a", "/", "x">>>>, <<<<"a">>>>}

\* What the Helm analysis of a merge request returns: resources named
\* Kind/Name or Namespace/Kind/Name, split at "/".
HelmResourceLists ==
    {<<>>, <<<<"deployment", "web">>>>, <<<<"web">>, <<"prod", "Service", "web">>>>}

\* projectPath: project.PathWithNamespace, or the projectID when GetProject fails
ProjectPaths == {"grp/proj", "17"}

isAppSourcedFromProject(app, projectPath) == EqualFold(app.project, projectPath)

isAppAffectedByDiffs(app, diffs) ==
    \/ app.path = <<>>
    \/ \E i \in DOMAIN diffs :
          HasPrefix(diffs[i].NewPath, app.path) \/ HasPrefix(diffs[i].OldPath, app.path)

isFileInAppSourcePath(app, file) ==
    app.path = <<>> \/ HasPrefix(file, app.path)

appContainsAnyResource(app, resources) ==
    /\ app.treeOK
    /\ \E r \in DOMAIN resources, n \in DOMAIN app.nodes :
          \/ /\ Len(resources[r]) = 2
             /\ EqualFold(app.nodes[n].Kind, resources[r][1])
             /\ app.nodes[n].Name = resources[r][2]
          \/ /\ Len(resources[r]) = 3
             /\ EqualFold(app.nodes[n].Kind, resources[r][2])
             /\ app.nodes[n].Name = resources[r][3]
             /\ app.nodes[n].Namespace = resources[r][1]

isResourceAlreadyInResults(results, kind, name, namespace) ==
    \E i \in DOMAIN results :
        /\ results[i].Kind = kind
        /\ results[i].Name = name
        /\ results[i].Namespace = namespace

\* An entry of RelatedResources: fmt.Sprintf("MergeRequest/%d", iid) is
\* kept as the pair of its two parts.
RelatedEntry(kind, id) == <<kind, id>>

\* The ResourceContext TraceResourceDeployment returns for a node; its
\* RelatedResources are never set by the trace.
TracedContext(node) ==
    [Kind |-> node.Kind, Name |-> node.Name, Namespace |-> node.Namespace,
     RelatedResources |-> <<>>]

NoChange == [type |-> "none", id |-> 0]

CommitSHAs == {101, 102}

MergeRequestIIDs == {7}

\* FindResourcesAffectedByCommit up to its loop over the applications:
\* GetCommit, GetCommitDiff, ListApplications (a failure of any is returned)
\* and GetProject (a failure leaves the projectID as path).
FindResourcesAffectedByCommit ==
    /\ ImpactFrame
    /\ ipc = "idle"
    /\ iresult' = <<>>
    /\ inodes' = <<>>
    /\ \E sha \in CommitSHAs : ichange' = [type |-> "commit", id |-> sha]
    /\ \E failed \in {"none", "commit", "diff", "apps"} :
          IF failed # "none"
          THEN /\ ipc' = "done" /\ iret' = "err"
               /\ iapps' = <<>> /\ idiffs' = <<>> /\ iproject' = "17"
          ELSE /\ ipc' = "apps" /\ iret' = "none"
               /\ iapps' \in AppLists
               /\ idiffs' \in DiffLists
               /\ iproject' \in ProjectPaths

\* One turn of the loop over argoApps in FindResourcesAffectedByCommit, up
\* to the loop over the nodes of the tree.
CommitNextApp ==
    /\ ImpactFrame
    /\ ipc = "apps" /\ ichange.type = "commit"
    /\ iapps # <<>> /\ inodes = <<>>
    /\ LET app == Head(iapps) IN
       /\ iapps' = Tail(iapps)
       /\ inodes' = IF /\ isAppSourcedFromProject(app, iproject)
                       /\ isAppAffectedByDiffs(app, idiffs)
                       /\ app.treeOK
                    THEN app.nodes ELSE <<>>
    /\ UNCHANGED <<ichange, idiffs, iproject, iresult, ipc, iret>>

\* One turn of the loop over tree.Nodes in FindResourcesAffectedByCommit
CommitNode ==
    /\ ImpactFrame
    /\ ipc = "apps" /\ ichange.type = "commit"
    /\ inodes # <<>>
    /\ LET node == Head(inodes) IN
       /\ inodes' = Tail(inodes)
       /\ iresult' =
            IF node.Kind = "" \/ node.Name = "" THEN iresult
            ELSE IF isResourceAlreadyInResults(iresult, node.Kind, node.Name, node.Namespace)
                 THEN iresult
                 ELSE Append(iresult, TracedContext(node))
    /\ UNCHANGED <<ichange, idiffs, iproject, iapps, ipc, iret>>

\* The applications a merge request affects: sourced from the project, and
\* holding a changed file or a resource that the Helm analysis named.
AffectedApps(mr, apps, projectPath, helmAffectedResources) ==
    LET isAffected(app) ==
            /\ isAppSourcedFromProject(app, projectPath)
            /\ \/ \E f \in DOMAIN mr.files : isFileInAppSourcePath(app, mr.files[f])
               \/ /\ Len(helmAffectedResources) > 0
                  /\ appContainsAnyResource(app, helmAffectedResources)
    IN  SelectSeq(apps, isAffected)

\* AnalyzeMergeRequest up to its loop over the affected applications:
\* gitlabClient.AnalyzeMergeRequest and ListApplications (a failure of
\* either is returned), GetProject, and the Helm analysis, whose failure
\* leaves helmAffectedResources empty.
AnalyzeMergeRequest ==
    /\ ImpactFrame
    /\ ipc = "idle"
    /\ iresult' = <<>>
    /\ inodes' = <<>>
    /\ idiffs' = <<>>
    /\ iproject' = "17"
    /\ \E iid \in MergeRequestIIDs : ichange' = [type |-> "mr", id |-> iid]
    /\ \E failed \in {"none", "mr", "apps"},
          mr \in [helm : BOOLEAN, manifest : BOOLEAN, files : FileLists] :
          IF failed = "mr" THEN ipc' = "done" /\ iret' = "err" /\ iapps' = <<>>
          ELSE IF ~mr.helm /\ ~mr.manifest
               THEN ipc' = "done" /\ iret' = "ok" /\ iapps' = <<>>
               ELSE IF failed = "apps"
                    THEN ipc' = "done" /\ iret' = "err" /\ iapps' = <<>>
                    ELSE /\ ipc' = "apps" /\ iret' = "none"
                         /\ \E apps \in AppLists, projectPath \in ProjectPaths,
                               helmResources \in HelmResourceLists :
                               iapps' = AffectedApps(mr, apps, projectPath,
                                           IF mr.helm THEN helmResources ELSE <<>>)

\* One turn of the loop over affectedApps in AnalyzeMergeRequest
MergeRequestNextApp ==
    /\ ImpactFrame
    /\ ipc = "apps" /\ ichange.type = "mr"
    /\ iapps # <<>> /\ inodes = <<>>
    /\ iapps' = Tail(iapps)
    /\ inodes' = IF Head(iapps).treeOK THEN Head(iapps).nodes ELSE <<>>
    /\ UNCHANGED <<ichange, idiffs, iproject, iresult, ipc, iret>>

\* One turn of the loop over tree.Nodes in AnalyzeMergeRequest
MergeRequestNode ==
    /\ ImpactFrame
    /\ ipc = "apps" /\ ichange.type = "mr"
    /\ inodes # <<>>
    /\ LET node == Head(inodes)
           rc == TracedContext(node)
       IN
       /\ inodes' = Tail(inodes)
       /\ iresult' =
            IF node.Kind = "" \/ node.Name = "" THEN iresult
            ELSE IF isResourceAlreadyInResults(iresult, node.Kind, node.Name, node.Namespace)
                 THEN iresult
                 ELSE Append(iresult,
                        [rc EXCEPT !.RelatedResources =
                            Append(@, RelatedEntry("MergeRequest", ichange.id))])
    /\ UNCHANGED <<ichange, idiffs, iproject, iapps, ipc, iret>>

\* return result, nil
ImpactReturn ==
    /\ ImpactFrame
    /\ ipc = "apps"
    /\ iapps = <<>> /\ inodes = <<>>
    /\ ipc' = "done"
    /\ iret' = "ok"
    /\ UNCHANGED <<ichange, idiffs, iproject, iapps, inodes, iresult>>

ImpactInit ==
    /\ ipc = "idle"
    /\ ichange = NoChange
    /\ idiffs = <<>>
    /\ iproject = "17"
    /\ iapps = <<>>
    /\ inodes = <<>>
    /\ iresult = <<>>
    /\ iret = "none"

ImpactIdle ==
    /\ ipc = "off"
    /\ ichange = NoChange
    /\ idiffs = <<>>
    /\ iproject = "17"
    /\ iapps = <<>>
    /\ inodes = <<>>
    /\ iresult = <<>>
    /\ iret = "none"

ImpactNext ==
    \/ FindResourcesAffectedByCommit
    \/ CommitNextApp
    \/ CommitNode
    \/ AnalyzeMergeRequest
    \/ MergeRequestNextApp
    \/ MergeRequestNode
    \/ ImpactReturn

-----------------------------------------------------------------------------
(* Kind resolution: resourceMappings and Client.getGVR (k8s/resources.go).  *)

\* The most resolutions one behaviour makes.
MaxResolutions == 2

GVR(group, version, resource) == [Group |-> group, Version |-> version, Resource |-> resource]

NoGVR == GVR("", "", "")

\* var resourceMappings
resourceMappings ==
    [pod         |-> GVR("", "v1", "pods"),
     deployment  |-> GVR("apps", "v1", "deployments"),
     service     |-> GVR("", "v1", "services"),
     configmap   |-> GVR("", "v1", "configmaps"),
     secret      |-> GVR("", "v1", "secrets"),
     statefulset |-> GVR("apps", "v1", "statefulsets"),
     daemonset   |-> GVR("apps", "v1", "daemonsets"),
     job         |-> GVR("batch", "v1", "jobs"),
     cronjob     |-> GVR("batch", "v1", "cronjobs"),
     ingress     |-> GVR("networking.k8s.io", "v1", "ingresses"),
     namespace   |-> GVR("", "v1", "namespaces"),
     node        |-> GVR("", "v1", "nodes"),
     pv          |-> GVR("", "v1", "persistentvolumes"),
     pvc         |-> GVR("", "v1", "persistentvolumeclaims")]

\* strings.ToLower on the names that occur
ToLower(s) == Fold(s)

\* One APIResourceList of the discovery answer: whether its GroupVersion
\* parses, the group and version it parses to, and its resources.
APIList(parses, group, version, resources) ==
    [parses |-> parses, group |-> group, version |-> version, resources |-> resources]

APIResource(name, singular) == [Name |-> name, SingularName |-> singular]

CoreList ==
    APIList(TRUE, "", "v1", <<APIResource("pods", "pod"), APIResource("services", "service")>>)

WidgetList == APIList(TRUE, "example.com", "v1", <<APIResource("widgets", "widget")>>)

GadgetList == APIList(FALSE, "", "", <<APIResource("gadgets", "gadget")>>)

MetricsList == APIList(TRUE, "metrics.k8s.io", "v1beta1", <<APIResource("pods", "")>>)

\* What ServerPreferredResources answers: an error, or the lists.
Discovery(ok, lists) == [ok |-> ok, lists |-> lists]

Discoveries ==
    {Discovery(FALSE, <<>>),
     Discovery(TRUE, <<CoreList>>),
     Discovery(TRUE, <<CoreList, WidgetList>>),
     Discovery(TRUE, <<GadgetList, CoreList>>),
     Discovery(TRUE, <<MetricsList, CoreList, WidgetList>>)}

ResourceTypes == {"pod", "Pod", "pods", "widget", "Widget", "widgets", "gadget"}

\* The loops of getGVR over the lists and their resources from (l, r) on:
\* the first resource whose Name or SingularName equals resourceType when
\* case is ignored, lists with an unparsable GroupVersion skipped.
RECURSIVE FirstMatch(_, _, _, _)
FirstMatch(lists, l, r, resourceType) ==
    IF l > Len(lists) THEN NoGVR
    ELSE IF ~lists[l].parses \/ r > Len(lists[l].resources)
         THEN FirstMatch(lists, l + 1, 1, resourceType)
         ELSE IF \/ EqualFold(lists[l].resources[r].Name, resourceType)
                 \/ EqualFold(lists[l].resources[r].SingularName, resourceType)
              THEN GVR(lists[l].group, lists[l].version, lists[l].resources[r].Name)
              ELSE FirstMatch(lists, l, r + 1, resourceType)

\* What a resolution yields: the error, if any, the GroupVersionResource,
\* and whether ServerPreferredResources was called for it.
Resolution(err, gvr, discovered) == [err |-> err, gvr |-> gvr, discovered |-> discovered]

\* Client.getGVR, given what ServerPreferredResources answers when called
getGVR(resourceType, discovery) ==
    LET rt == ToLower(resourceType) IN
    IF rt \in DOMAIN resourceMappings
    THEN Resolution("none", resourceMappings[rt], FALSE)
    ELSE IF ~discovery.ok
         THEN Resolution("failed to get server resources", NoGVR, TRUE)
         ELSE IF FirstMatch(discovery.lists, 1, 1, rt) # NoGVR
              THEN Resolution("none", FirstMatch(discovery.lists, 1, 1, rt), TRUE)
              ELSE Resolution("unknown resource type", NoGVR, TRUE)

\* One call of getGVR; the log keeps what was asked and what came back.
Resolve(resourceType) ==
    /\ ResolveFrame
    /\ kpc = "on"
    /\ Len(klog) < MaxResolutions
    /\ klog' = Append(klog, [type |-> resourceType, res |-> getGVR(resourceType, kcluster)])
    /\ kdiscoveries' = kdiscoveries + (IF getGVR(resourceType, kcluster).discovered THEN 1 ELSE 0)
    /\ UNCHANGED <<kpc, kcluster>>

ResolveInit ==
    /\ kpc = "on"
    /\ kcluster \in Discoveries
    /\ klog = <<>>
    /\ kdiscoveries = 0

ResolveIdle ==
    /\ kpc = "off"
    /\ kcluster = Discovery(FALSE, <<>>)
    /\ klog = <<>>
    /\ kdiscoveries = 0

ResolveNext ==
    \E resourceType \in ResourceTypes : Resolve(resourceType)

-----------------------------------------------------------------------------
(* Requests: Server.handleMCPRequest, Server.handleResourceQuery and        *)
(* Server.handleTroubleshoot (api/routes.go), ProtocolHandler.ProcessRequest *)
(* and ProtocolHandler.ProcessTroubleshootRequest, and                      *)
(* TroubleshootCorrelator.TroubleshootResource. The requests taken do not   *)
(* name the kind namespace, for which handleResourceQuery gathers more.     *)

Endpoints == {"mcp", "resource", "troubleshoot"}

Requests ==
    [Action : {"queryResource", "queryCommit", "bogus"},
     Resource : {"", "pod", "widget", "gadget"},
     Name : {"", "web"},
     Query : {"", "why"},
     Context : {"", "given"}]

NoRequest ==
    [Action |-> "bogus", Resource |-> "", Name |-> "", Query |-> "", Context |-> ""]

\* The clusters a request can meet.
RequestClusters ==
    {Discovery(FALSE, <<>>), Discovery(TRUE, <<CoreList>>),
     Discovery(TRUE, <<CoreList, WidgetList>>)}

\* What has been collected for the request so far.
NothingHeld == [context |-> FALSE, issues |-> FALSE]

\* What is written to the caller: the status code, whether the body is an
\* error, and which of analysis, resource context and issues it carries.
Response(code, error, analysis, context, issues) ==
    [code |-> code, error |-> error, analysis |-> analysis,
     context |-> context, issues |-> issues]

NoResponse == Response(0, FALSE, FALSE, FALSE, FALSE)

respondWithErrorKeeping(code, held) ==
    Response(code, TRUE, FALSE, held.context, held.issues)

\* Server.respondWithError: the message and the details of the error
respondWithError(code, held) == Response(code, TRUE, FALSE, FALSE, FALSE)

\* The upstream calls Client.GetResource makes for a kind
GetResourceCalls(kind, cluster) ==
    (IF getGVR(kind, cluster).discovered THEN {"discovery"} ELSE {})
    \cup (IF getGVR(kind, cluster).err = "none" THEN {"k8s"} ELSE {})

\* The handler up to the call of the request processing: the body is
\* decoded, the resource endpoints require Resource and Name.
Receive(endpoint, request, cluster, decodes) ==
    /\ RequestFrame
    /\ qpc = "idle"
    /\ qendpoint' = endpoint
    /\ qcluster' = cluster
    /\ qreq' = IF endpoint = "resource"
               THEN [request EXCEPT !.Action = "queryResource"]
               ELSE request
    /\ IF ~decodes
          \/ (endpoint # "mcp" /\ (request.Resource = "" \/ request.Name = ""))
       THEN qpc' = "done" /\ qresp' = respondWithError(400, qheld)
       ELSE /\ qpc' = IF endpoint = "troubleshoot" THEN "trace" ELSE "process"
            /\ UNCHANGED qresp
    /\ UNCHANGED <<qcalls, qheld, qllm>>

\* ProcessRequest: switch request.Action
ProcessRequest ==
    /\ RequestFrame
    /\ qpc = "process"
    /\ IF qreq.Action = "queryResource"
       THEN /\ qpc' = IF qreq.Context # "" THEN "prompt" ELSE "trace"
            /\ qheld' = IF qreq.Context # "" THEN [qheld EXCEPT !.context = TRUE] ELSE qheld
            /\ UNCHANGED qresp
       ELSE IF qreq.Action = "queryCommit"
            THEN qpc' = "commit" /\ UNCHANGED <<qresp, qheld>>
            ELSE /\ qpc' = "done"
                 /\ qresp' = respondWithError(500, qheld)
                 /\ UNCHANGED qheld
    /\ UNCHANGED <<qendpoint, qcluster, qreq, qcalls, qllm>>

\* TraceResourceDeployment as called for the request: the cluster get, then
\* the application lookup whether or not the get succeeded, then the
\* source host when an application with a repository was found. It
\* returns a context and a nil error.
RequestTrace(argo, gitlab) ==
    /\ RequestFrame
    /\ qpc = "trace"
    /\ argo # "found" => ~gitlab
    /\ qcalls' = qcalls \cup GetResourceCalls(qreq.Resource, qcluster)
                        \cup {"argocd"}
                        \cup (IF gitlab THEN {"gitlab"} ELSE {})
    /\ qheld' = [qheld EXCEPT !.context = TRUE]
    /\ qpc' = IF qendpoint = "troubleshoot" THEN "analyze" ELSE "enrich"
    /\ UNCHANGED <<qendpoint, qcluster, qreq, qresp, qllm>>

\* ProcessRequest after the trace: GetResource for the resource data, whose
\* failure is ignored, and FormatResourceContext.
Enrich ==
    /\ RequestFrame
    /\ qpc = "enrich"
    /\ qcalls' = qcalls \cup GetResourceCalls(qreq.Resource, qcluster)
    /\ qpc' = "prompt"
    /\ UNCHANGED <<qendpoint, qcluster, qreq, qheld, qresp, qllm>>

\* TroubleshootResource after the trace: GetResource, whose failure is only
\* logged, and the analysis; then handleTroubleshoot answers with the result
\* when the request has no query.
Analyze ==
    /\ RequestFrame
    /\ qpc = "analyze"
    /\ qcalls' = qcalls \cup GetResourceCalls(qreq.Resource, qcluster)
    /\ qheld' = [qheld EXCEPT !.issues = TRUE]
    /\ IF qreq.Query = ""
       THEN qpc' = "done" /\ qresp' = Response(200, FALSE, FALSE, TRUE, TRUE)
       ELSE qpc' = "prompt" /\ UNCHANGED qresp
    /\ UNCHANGED <<qendpoint, qcluster, qreq, qllm>>

\* ProcessRequest, case queryCommit: FindResourcesAffectedByCommit, whose
\* error is returned, and CombineContexts.
QueryCommit(ok) ==
    /\ RequestFrame
    /\ qpc = "commit"
    /\ qcalls' = qcalls \cup {"gitlab"} \cup (IF ok THEN {"argocd"} ELSE {})
    /\ IF ok
       THEN /\ qpc' = "prompt"
            /\ qheld' = [qheld EXCEPT !.context = TRUE]
            /\ UNCHANGED qresp
       ELSE /\ qpc' = "done"
            /\ qresp' = respondWithError(500, qheld)
            /\ UNCHANGED qheld
    /\ UNCHANGED <<qendpoint, qcluster, qreq, qllm>>

\* The prompts are built and claudeProtocol.GetCompletion is called; its
\* error is returned as the only result and the handler answers with
\* respondWithError, otherwise the response carries the analysis and, for
\* the troubleshoot endpoint, the troubleshoot result.
RequestCompletion(ok) ==
    /\ RequestFrame
    /\ qpc = "prompt"
    /\ qcalls' = qcalls \cup {"claude"}
    /\ qllm' = IF ok THEN "ok" ELSE "failed"
    /\ qpc' = "done"
    /\ qresp' = IF ~ok THEN respondWithError(500, qheld)
                ELSE IF qendpoint = "troubleshoot"
                     THEN Response(200, FALSE, TRUE, TRUE, TRUE)
                     ELSE Response(200, FALSE, TRUE, FALSE, FALSE)
    /\ UNCHANGED <<qendpoint, qcluster, qreq, qheld>>

RequestInit ==
    /\ qpc = "idle"
    /\ qendpoint = "mcp"
    /\ qcluster = Discovery(FALSE, <<>>)
    /\ qreq = NoRequest
    /\ qcalls = {}
    /\ qheld = NothingHeld
    /\ qllm = "none"
    /\ qresp = NoResponse

RequestIdle ==
    /\ qpc = "off"
    /\ qendpoint = "mcp"
    /\ qcluster = Discovery(FALSE, <<>>)
    /\ qreq = NoRequest
    /\ qcalls = {}
    /\ qheld = NothingHeld
    /\ qllm = "none"
    /\ qresp = NoResponse

RequestNext ==
    \/ \E endpoint \in Endpoints, request \in Requests,
          cluster \in RequestClusters, decodes \in BOOLEAN :
          Receive(endpoint, request, cluster, decodes)
    \/ ProcessRequest
    \/ \E argo \in {"error", "none", "found"}, gitlab \in BOOLEAN : RequestTrace(argo, gitlab)
    \/ Enrich
    \/ Analyze
    \/ \E ok \in BOOLEAN : QueryCommit(ok)
    \/ \E ok \in BOOLEAN : RequestCompletion(ok)

-----------------------------------------------------------------------------
(* Namespace topology: ResourceMapper.GetNamespaceTopology and             *)
(* ResourceMapper.findRelationships (k8s/resource_mapper.go).  Of the      *)
(* topology only Relationships is kept; Resources, Metrics and Health are  *)
(* written per kind and read by none of the edges.                         *)

\* The most resource lists a discovery answer holds.
MaxLists == 3

TopologyNamespace == "prod"

\* type ResourceRelationship
ResourceRelationship(sk, sn, sns, tk, tn, tns, rt) ==
    [SourceKind |-> sk, SourceName |-> sn, SourceNamespace |-> sns,
     TargetKind |-> tk, TargetName |-> tn, TargetNamespace |-> tns,
     RelationType |-> rt]

\* The parts of an object findRelationships reads.  selected: the pods the
\* selector of a Service lists, empty when it has no selector or the list
\* fails.  volumes, envFrom, env: per entry the configMap and the secret it
\* names, "" for none.  backends: per path of an Ingress the string at
\* backend.name, "" when the path has no backend or the backend no name.
Bare(kind, name) ==
    [kind |-> kind, name |-> name, owners |-> <<>>, selected |-> <<>>,
     volumes |-> <<>>, envFrom |-> <<>>, env |-> <<>>, volumeName |-> "",
     backends |-> <<>>]

OwnerReference(kind, name) == [Kind |-> kind, Name |-> name]

Ref(configMap, secret) == [configMap |-> configMap, secret |-> secret]

\* The objects of the namespace, by kind.
ClusterObjects(kind) ==
    CASE kind = "Pod" ->
           <<[Bare("Pod", "web-1") EXCEPT
                !.owners = <<OwnerReference("ReplicaSet", "web")>>,
                !.volumes = <<Ref("cfg", ""), Ref("cfg", "tls")>>,
                !.envFrom = <<Ref("cfg", "tls")>>,
                !.env = <<Ref("cfg", ""), Ref("", "tls")>>],
             [Bare("Pod", "web-2") EXCEPT
                !.owners = <<OwnerReference("ReplicaSet", "web")>>]>>
      [] kind = "Service" ->
           <<[Bare("Service", "web") EXCEPT !.selected = <<"web-1", "web-2">>]>>
      [] kind = "ReplicaSet" ->
           <<[Bare("ReplicaSet", "web") EXCEPT
                !.owners = <<OwnerReference("Deployment", "web")>>]>>
      [] kind = "PersistentVolumeClaim" ->
           <<[Bare("PersistentVolumeClaim", "data") EXCEPT !.volumeName = "pv-1"]>>
      [] kind = "Ingress" ->
           <<[Bare("Ingress", "web") EXCEPT !.backends = <<"web", "", "web">>]>>
      [] OTHER -> <<>>

\* One metav1.APIResource: whether its verbs contain "list", whether it is
\* namespaced.
TopologyResource(name, kind, listable, namespaced) ==
    [Name |-> name, Kind |-> kind, listable |-> listable, Namespaced |-> namespaced]

TopologyCoreList ==
    APIList(TRUE, "", "v1",
            <<TopologyResource("pods", "Pod", TRUE, TRUE),
              TopologyResource("bindings", "Binding", FALSE, TRUE),
              TopologyResource("nodes", "Node", TRUE, FALSE),
              TopologyResource("services", "Service", TRUE, TRUE),
              TopologyResource("persistentvolumeclaims", "PersistentVolumeClaim", TRUE, TRUE)>>)

TopologyAppsList ==
    APIList(TRUE, "apps", "v1", <<TopologyResource("replicasets", "ReplicaSet", TRUE, TRUE)>>)

\* Clusters before 1.16 serve the same ReplicaSets under extensions too.
TopologyExtensionsList ==
    APIList(TRUE, "extensions", "v1beta1",
            <<TopologyResource("replicasets", "ReplicaSet", TRUE, TRUE),
              TopologyResource("ingresses", "Ingress", TRUE, TRUE)>>)

TopologyBadList ==
    APIList(FALSE, "", "", <<TopologyResource("pods", "Pod", TRUE, TRUE)>>)

TopologyLists == {TopologyCoreList, TopologyAppsList, TopologyExtensionsList, TopologyBadList}

\* What ServerPreferredResources answers: lists no two of which are the same.
TopologyDiscoveries ==
    {Discovery(FALSE, <<>>)} \cup
    {Discovery(TRUE, ls) : ls \in
        {s \in UNION {[1..n -> TopologyLists] : n \in 0..MaxLists} :
            \A i, j \in DOMAIN s : i # j => s[i] # s[j]}}

\* The resources whose List may fail.
FailingSets == SUBSET {"pods", "replicasets"}

\* The edges of one object, in the order findRelationships appends them.
RECURSIVE OwnerEdges(_, _)
OwnerEdges(resource, i) ==
    IF i > Len(resource.owners) THEN <<>>
    ELSE <<ResourceRelationship(resource.owners[i].Kind, resource.owners[i].Name,
                                TopologyNamespace, resource.kind, resource.name,
                                TopologyNamespace, "owns")>>
         \o OwnerEdges(resource, i + 1)

RECURSIVE SelectEdges(_, _)
SelectEdges(resource, i) ==
    IF resource.kind # "Service" \/ i > Len(resource.selected) THEN <<>>
    ELSE <<ResourceRelationship("Service", resource.name, TopologyNamespace,
                                "Pod", resource.selected[i], TopologyNamespace, "selects")>>
         \o SelectEdges(resource, i + 1)

\* For each entry of refs the edge to its configMap, then to its secret.
RECURSIVE RefEdges(_, _, _, _)
RefEdges(resource, refs, relationType, i) ==
    IF i > Len(refs) THEN <<>>
    ELSE (IF refs[i].configMap = "" THEN <<>>
          ELSE <<ResourceRelationship("Pod", resource.name, TopologyNamespace, "ConfigMap",
                                      refs[i].configMap, TopologyNamespace, relationType)>>)
         \o (IF refs[i].secret = "" THEN <<>>
             ELSE <<ResourceRelationship("Pod", resource.name, TopologyNamespace, "Secret",
                                         refs[i].secret, TopologyNamespace, relationType)>>)
         \o RefEdges(resource, refs, relationType, i + 1)

PodEdges(resource) ==
    IF resource.kind # "Pod" THEN <<>>
    ELSE RefEdges(resource, resource.volumes, "mounts", 1)
         \o RefEdges(resource, resource.envFrom, "configures", 1)
         \o RefEdges(resource, resource.env, "configures", 1)

ClaimEdges(resource) ==
    IF resource.kind = "PersistentVolumeClaim" /\ resource.volumeName # ""
    THEN <<ResourceRelationship("PersistentVolumeClaim", resource.name, TopologyNamespace,
                                "PersistentVolume", resource.volumeName, "", "binds")>>
    ELSE <<>>

RECURSIVE IngressEdges(_, _)
IngressEdges(resource, i) ==
    IF resource.kind # "Ingress" \/ i > Len(resource.backends) THEN <<>>
    ELSE (IF resource.backends[i] = "" THEN <<>>
          ELSE <<ResourceRelationship("Ingress", resource.name, TopologyNamespace, "Service",
                                      resource.backends[i], TopologyNamespace, "routes")>>)
         \o IngressEdges(resource, i + 1)

RECURSIVE CollectEdges(_, _)
CollectEdges(resources, i) ==
    IF i > Len(resources) THEN <<>>
    ELSE OwnerEdges(resources[i], 1) \o SelectEdges(resources[i], 1)
         \o PodEdges(resources[i]) \o ClaimEdges(resources[i])
         \o IngressEdges(resources[i], 1) \o CollectEdges(resources, i + 1)

\* fmt.Sprintf("%s/%s/%s/%s/%s/%s/%s", ...)
RelKey(rel) ==
    <<rel.SourceKind, "/", rel.SourceName, "/", rel.SourceNamespace, "/",
      rel.TargetKind, "/", rel.TargetName, "/", rel.TargetNamespace, "/",
      rel.RelationType>>

\* The loop that keeps the first relationship of each key
RECURSIVE Deduplicate(_, _, _)
Deduplicate(relationships, i, relMap) ==
    IF i > Len(relationships) THEN <<>>
    ELSE IF RelKey(relationships[i]) \in relMap
         THEN Deduplicate(relationships, i + 1, relMap)
         ELSE <<relationships[i]>>
              \o Deduplicate(relationships, i + 1, relMap \cup {RelKey(relationships[i])})

\* ResourceMapper.findRelationships
findRelationships(resources) == Deduplicate(CollectEdges(resources, 1), 1, {})

\* The inner loop of GetNamespaceTopology over the resources of one list
\* from r on: what it appends to topology.Relationships.
RECURSIVE MapResources(_, _, _)
MapResources(resources, r, failing) ==
    IF r > Len(resources) THEN <<>>
    ELSE (IF \/ ~resources[r].listable
             \/ ~resources[r].Namespaced
             \/ resources[r].Name \in failing
             \/ Len(ClusterObjects(resources[r].Kind)) = 0
          THEN <<>>
          ELSE findRelationships(ClusterObjects(resources[r].Kind)))
         \o MapResources(resources, r + 1, failing)

NoTopology == [err |-> "none", Relationships |-> <<>>]

\* GetNamespaceTopology up to its loop: ServerPreferredResources answers.
GetNamespaceTopology ==
    /\ TopologyFrame
    /\ mpc = "idle"
    /\ mdiscovery' \in TopologyDiscoveries
    /\ mfailing' \in FailingSets
    /\ mrels' = <<>>
    /\ mnext' = 1
    /\ IF mdiscovery'.ok
       THEN mpc' = "mapping" /\ mret' = NoTopology
       ELSE /\ mpc' = "returned"
            /\ mret' = [err |-> "failed to get server resources", Relationships |-> <<>>]

\* One pass of the outer loop: a list whose GroupVersion does not parse is
\* skipped, the relationships of the others are appended.
MapList ==
    /\ TopologyFrame
    /\ mpc = "mapping"
    /\ mnext <= Len(mdiscovery.lists)
    /\ mrels' = IF mdiscovery.lists[mnext].parses
                THEN mrels \o MapResources(mdiscovery.lists[mnext].resources, 1, mfailing)
                ELSE mrels
    /\ mnext' = mnext + 1
    /\ UNCHANGED <<mpc, mdiscovery, mfailing, mret>>

\* return topology, nil
TopologyReturn ==
    /\ TopologyFrame
    /\ mpc = "mapping"
    /\ mnext > Len(mdiscovery.lists)
    /\ mpc' = "returned"
    /\ mret' = [err |-> "none", Relationships |-> mrels]
    /\ UNCHANGED <<mdiscovery, mfailing, mrels, mnext>>

TopologyInit ==
    /\ mpc = "idle"
    /\ mdiscovery = Discovery(FALSE, <<>>)
    /\ mfailing = {}
    /\ mrels = <<>>
    /\ mnext = 1
    /\ mret = NoTopology

TopologyIdle ==
    /\ mpc = "off"
    /\ mdiscovery = Discovery(FALSE, <<>>)
    /\ mfailing = {}
    /\ mrels = <<>>
    /\ mnext = 1
    /\ mret = NoTopology

TopologyNext ==
    \/ GetNamespaceTopology
    \/ MapList
    \/ TopologyReturn

-----------------------------------------------------------------------------
(* Issue classification: TroubleshootCorrelator.TroubleshootResource and   *)
(* the analyses it runs (correlator/troubleshoot.go).                      *)

\* type Issue
Issue(source, category, severity, title, description) ==
    [Source |-> source, Category |-> category, Severity |-> severity,
     Title |-> title, Description |-> description]

\* One event of rc.Events
K8sEvent(type, reason, message) == [Type |-> type, Reason |-> reason, Message |-> message]

\* strings.Contains on the reasons and messages that occur, for the
\* substrings analyzeKubernetesEvents looks for
Contains(s, substr) ==
    substr \in
      (CASE s = "Failed" -> {"Failed"}
         [] s = "FailedScheduling" -> {"Failed"}
         [] s = "FailedMount" -> {"Failed"}
         [] s = "Unhealthy" -> {"Unhealthy"}
         [] s = "BackOff" -> {"BackOff"}
         [] s = "Failed to pull image: ImagePullBackOff" -> {"Failed", "ImagePull", "BackOff"}
         [] s = "0/3 nodes are available: Insufficient memory" -> {"memory"}
         [] s = "0/3 nodes are available: Insufficient cpu" -> {"cpu"}
         [] s = "Back-off restarting failed container, memory limit 64Mi" -> {"memory"}
         [] OTHER -> {})

\* The issue analyzeKubernetesEvents makes of one Warning event
EventIssue(event) ==
    LET description == event.Reason \o ": " \o event.Message IN
    IF Contains(event.Reason, "Failed") /\ Contains(event.Message, "ImagePull")
    THEN Issue("Kubernetes", "ImagePullError", "Warning", "Image Pull Failure", description)
    ELSE IF Contains(event.Reason, "Unhealthy")
    THEN Issue("Kubernetes", "HealthCheckFailure", "Warning", "Health Check Failure", description)
    ELSE IF Contains(event.Message, "memory")
    THEN Issue("Kubernetes", "ResourceIssue", "Warning", "Memory Resource Issue", description)
    ELSE IF Contains(event.Message, "cpu")
    THEN Issue("Kubernetes", "ResourceIssue", "Warning", "CPU Resource Issue", description)
    ELSE IF Contains(event.Reason, "BackOff")
    THEN Issue("Kubernetes", "CrashLoopBackOff", "Warning", "Container Crash Loop", description)
    ELSE Issue("Kubernetes", "OtherWarning", "Warning", "Kubernetes Warning", description)

\* analyzeKubernetesEvents scanning the events from the last to the first
RECURSIVE analyzeKubernetesEventsBackwards(_, _)
analyzeKubernetesEventsBackwards(events, i) ==
    IF i > Len(events) THEN <<>>
    ELSE analyzeKubernetesEventsBackwards(events, i + 1)
         \o (IF events[i].Type = "Warning" THEN <<EventIssue(events[i])>> ELSE <<>>)

\* TroubleshootCorrelator.analyzeKubernetesEvents, from event i on
RECURSIVE analyzeKubernetesEvents(_, _)
analyzeKubernetesEvents(events, i) ==
    IF i > Len(events) THEN <<>>
    ELSE (IF events[i].Type = "Warning" THEN <<EventIssue(events[i])>> ELSE <<>>)
         \o analyzeKubernetesEvents(events, i + 1)

\* A field read with unstructured.Nested*: whether it is found, and its
\* value (the zero value when it is not).
Field(found, value) == [found |-> found, value |-> value]

\* One entry of status.conditions
Condition(type, status, reason, message) ==
    [type |-> type, status |-> status, reason |-> reason, message |-> message]

\* One entry of status.containerStatuses: waiting and terminated are the
\* reason of that state, "none" when the state is absent; exitCode is that
\* of the terminated state.
ContainerStatus(name, ready, restartCount, waiting, terminated, exitCode) ==
    [name |-> name, ready |-> ready, restartCount |-> restartCount,
     waiting |-> waiting, terminated |-> terminated, exitCode |-> exitCode]

\* The raw resource: what the analyses read of it.  claims: the claimName of
\* each volume, "" for a volume that is no persistentVolumeClaim.
Raw(kind) ==
    [kind |-> kind, phase |-> Field(FALSE, ""), conditions |-> <<>>,
     containerStatuses |-> <<>>, initContainerStatuses |-> <<>>, claims |-> <<>>,
     replicas |-> Field(FALSE, 0), availableReplicas |-> Field(FALSE, 0),
     readyReplicas |-> Field(FALSE, 0)]

\* GetResource failed: resource is nil
NilResource == Raw("")

\* TroubleshootCorrelator.isResourceHealthy
isResourceHealthy(resource) ==
    IF EqualFold(resource.kind, "pod")
    THEN resource.phase.found /\ resource.phase.value = "Running"
    ELSE IF EqualFold(resource.kind, "deployment")
    THEN /\ resource.replicas.found
         /\ resource.availableReplicas.found
         /\ resource.replicas.value = resource.availableReplicas.value
         /\ resource.availableReplicas.value > 0
    ELSE TRUE

\* The default case of determineResourceHealth, from condition i on
RECURSIVE ConditionHealth(_, _)
ConditionHealth(conditions, i) ==
    IF i > Len(conditions) THEN "unknown"
    ELSE IF conditions[i].type \in {"Ready", "Available"} /\ conditions[i].status = "True"
         THEN "healthy"
    ELSE IF conditions[i].type = "Progressing" /\ conditions[i].status = "True"
         THEN "progressing"
    ELSE IF conditions[i].type \in {"Failed", "Error"} /\ conditions[i].status = "True"
         THEN "unhealthy"
    ELSE ConditionHealth(conditions, i + 1)

\* ResourceMapper.determineResourceHealth (k8s/resource_mapper.go), the
\* health per kind of the namespace topology, for an object that has a
\* status; the cases Ingress, PersistentVolumeClaim and Job read fields the
\* raw resource here does not keep.
determineResourceHealth(obj) ==
    IF obj.kind = "Pod"
    THEN IF ~obj.phase.found THEN "unknown"
         ELSE IF obj.phase.value \in {"Running", "Succeeded"} THEN "healthy"
         ELSE IF obj.phase.value = "Pending" THEN "progressing"
         ELSE IF obj.phase.value = "Failed" THEN "unhealthy"
         ELSE "unknown"
    ELSE IF obj.kind \in {"Deployment", "StatefulSet", "DaemonSet", "ReplicaSet"}
    THEN LET replicas == IF obj.replicas.found THEN obj.replicas.value ELSE 1 IN
         IF obj.availableReplicas.found /\ obj.availableReplicas.value = replicas
         THEN "healthy"
         ELSE IF obj.availableReplicas.found /\ obj.availableReplicas.value > 0
         THEN "progressing"
         ELSE "unhealthy"
    ELSE IF obj.kind = "Service" THEN "healthy"
    ELSE ConditionHealth(obj.conditions, 1)

\* The issues analyzeDeploymentStatus makes of one condition
DeploymentConditionIssues(c) ==
    (IF c.type = "Available" /\ c.status # "True"
     THEN <<Issue("Kubernetes", "DeploymentNotAvailable", "Warning", "Deployment Not Available",
                  "Deployment availability issue: " \o c.reason \o " - " \o c.message)>>
     ELSE <<>>)
    \o (IF c.type = "Progressing" /\ c.status # "True"
        THEN <<Issue("Kubernetes", "DeploymentNotProgressing", "Warning",
                     "Deployment Not Progressing",
                     "Deployment progress issue: " \o c.reason \o " - " \o c.message)>>
        ELSE <<>>)

RECURSIVE DeploymentConditions(_, _)
DeploymentConditions(conditions, i) ==
    IF i > Len(conditions) THEN <<>>
    ELSE DeploymentConditionIssues(conditions[i]) \o DeploymentConditions(conditions, i + 1)

\* TroubleshootCorrelator.analyzeDeploymentStatus
analyzeDeploymentStatus(d) ==
    (IF ~d.replicas.found \/ ~d.availableReplicas.found
        \/ d.availableReplicas.value < d.replicas.value
     THEN <<Issue("Kubernetes", "DeploymentNotAvailable", "Warning",
                  "Deployment Not Fully Available",
                  "Deployment has " \o ToString(d.availableReplicas.value) \o "/"
                    \o ToString(d.replicas.value) \o " available replicas")>>
     ELSE <<>>)
    \o (IF ~d.replicas.found \/ ~d.readyReplicas.found
           \/ d.readyReplicas.value < d.replicas.value
        THEN <<Issue("Kubernetes", "DeploymentNotReady", "Warning",
                     "Deployment Not Fully Ready",
                     "Deployment has " \o ToString(d.readyReplicas.value) \o "/"
                       \o ToString(d.replicas.value) \o " ready replicas")>>
        ELSE <<>>)
    \o DeploymentConditions(d.conditions, 1)

\* The issue analyzePodStatus makes of status.phase
PodPhaseIssues(pod) ==
    IF pod.phase.found /\ pod.phase.value # "Running" /\ pod.phase.value # "Succeeded"
    THEN IF pod.phase.value = "Pending"
         THEN <<Issue("Kubernetes", "PodNotRunning", "Warning", "Pod Pending",
                      "Pod is still in Pending state and hasn't started running")>>
         ELSE IF pod.phase.value = "Failed"
         THEN <<Issue("Kubernetes", "PodNotRunning", "Error", "Pod Failed",
                      "Pod is in " \o pod.phase.value \o " state")>>
         ELSE <<Issue("Kubernetes", "PodNotRunning", "Warning", "Pod Not Running",
                      "Pod is in " \o pod.phase.value \o " state")>>
    ELSE <<>>

\* The issues analyzePodStatus makes of one condition
PodConditionIssues(c) ==
    (IF c.type = "PodScheduled" /\ c.status # "True"
     THEN <<Issue("Kubernetes", "SchedulingIssue", "Warning", "Pod Scheduling Issue",
                  "Pod cannot be scheduled onto a node")>>
     ELSE <<>>)
    \o (IF c.type = "Initialized" /\ c.status # "True"
        THEN <<Issue("Kubernetes", "InitializationIssue", "Warning", "Pod Initialization Issue",
                     "Pod initialization containers have not completed successfully")>>
        ELSE <<>>)
    \o (IF c.type = "ContainersReady" /\ c.status # "True"
        THEN <<Issue("Kubernetes", "ContainerReadinessIssue", "Warning",
                     "Container Readiness Issue", "One or more containers are not ready")>>
        ELSE <<>>)
    \o (IF c.type = "Ready" /\ c.status # "True"
        THEN <<Issue("Kubernetes", "PodNotReady", "Warning", "Pod Not Ready",
                     "Pod is not ready to serve traffic")>>
        ELSE <<>>)

RECURSIVE PodConditions(_, _)
PodConditions(conditions, i) ==
    IF i > Len(conditions) THEN <<>>
    ELSE PodConditionIssues(conditions[i]) \o PodConditions(conditions, i + 1)

\* The restart count above which a container is reported
restartLimit == 3

\* The issues analyzeContainerStatuses makes of one status
ContainerIssues(cs, containerType) ==
    (IF ~cs.ready /\ cs.waiting # "none"
     THEN IF cs.waiting = "CrashLoopBackOff"
          THEN <<Issue("Kubernetes", "CrashLoopBackOff", "Error",
                       containerType \o " " \o cs.name \o " CrashLoopBackOff",
                       containerType \o " is waiting: " \o cs.waiting \o " - ")>>
          ELSE IF cs.waiting = "ImagePullBackOff" \/ cs.waiting = "ErrImagePull"
          THEN <<Issue("Kubernetes", "ImagePullError", "Warning",
                       containerType \o " " \o cs.name \o " Image Pull Error",
                       containerType \o " is waiting: " \o cs.waiting \o " - ")>>
          ELSE IF cs.waiting = "PodInitializing" \/ cs.waiting = "ContainerCreating"
          THEN <<Issue("Kubernetes", "PodInitializing", "Warning",
                       containerType \o " Still Initializing",
                       containerType \o " is still being created or initialized")>>
          ELSE <<Issue("Kubernetes", "ContainerWaiting", "Warning",
                       containerType \o " " \o cs.name \o " Waiting",
                       containerType \o " is waiting: " \o cs.waiting \o " - ")>>
     ELSE <<>>)
    \o (IF ~cs.ready /\ cs.terminated # "none" /\ cs.exitCode # 0
        THEN <<Issue("Kubernetes", "ContainerTerminated", "Error",
                     containerType \o " " \o cs.name \o " Terminated",
                     containerType \o " terminated with exit code " \o ToString(cs.exitCode)
                       \o ": " \o cs.terminated \o " - ")>>
        ELSE <<>>)
    \o (IF cs.restartCount > restartLimit
        THEN <<Issue("Kubernetes", "FrequentRestarts", "Warning",
                     containerType \o " " \o cs.name \o " Frequent Restarts",
                     containerType \o " has restarted " \o ToString(cs.restartCount)
                       \o " times")>>
        ELSE <<>>)

\* TroubleshootCorrelator.analyzeContainerStatuses, from status i on
RECURSIVE analyzeContainerStatuses(_, _, _)
analyzeContainerStatuses(statuses, isInit, i) ==
    IF i > Len(statuses) THEN <<>>
    ELSE ContainerIssues(statuses[i], IF isInit THEN "Init Container" ELSE "Container")
         \o analyzeContainerStatuses(statuses, isInit, i + 1)

\* The volume checks of analyzePodStatus from claim i on; pvc is what
\* GetResource answers for a claim: "error", or the phase of the claim.
RECURSIVE VolumeIssues(_, _, _)
VolumeIssues(claims, pvc, i) ==
    IF i > Len(claims) THEN <<>>
    ELSE (IF claims[i] = "" THEN <<>>
          ELSE IF pvc = "error"
          THEN <<Issue("Kubernetes", "VolumeIssue", "Warning", "PVC Not Found",
                       "PersistentVolumeClaim " \o claims[i] \o " not found")>>
          ELSE IF pvc # "Bound"
          THEN <<Issue("Kubernetes", "VolumeIssue", "Warning", "PVC Not Bound",
                       "PersistentVolumeClaim " \o claims[i] \o " is in " \o pvc \o " state")>>
          ELSE <<>>)
         \o VolumeIssues(claims, pvc, i + 1)

\* TroubleshootCorrelator.analyzePodStatus
analyzePodStatus(pod, pvc) ==
    PodPhaseIssues(pod)
    \o PodConditions(pod.conditions, 1)
    \o analyzeContainerStatuses(pod.containerStatuses, FALSE, 1)
    \o analyzeContainerStatuses(pod.initContainerStatuses, TRUE, 1)
    \o VolumeIssues(pod.claims, pvc, 1)

\* One entry of rc.ArgoSyncHistory
SyncRecord(status, revision, deployedAt) ==
    [Status |-> status, Revision |-> revision, DeployedAt |-> deployedAt]

\* The first failed sync of the history from entry i on
RECURSIVE SyncFailureIssues(_, _)
SyncFailureIssues(history, i) ==
    IF i > Len(history) THEN <<>>
    ELSE IF history[i].Status = "Failed"
         THEN <<Issue("ArgoCD", "SyncFailure", "Error", "Recent Sync Failure",
                      "Sync at " \o history[i].DeployedAt \o " failed with revision "
                        \o history[i].Revision)>>
         ELSE SyncFailureIssues(history, i + 1)

\* TroubleshootCorrelator.analyzeArgoStatus; ArgoApplication "" is nil
analyzeArgoStatus(rc) ==
    IF rc.ArgoApplication = "" THEN <<>>
    ELSE (IF rc.ArgoSyncStatus # "Synced"
          THEN <<Issue("ArgoCD", "SyncIssue", "Warning", "ArgoCD Sync Issue",
                       "Application " \o rc.ArgoApplication \o " is not synced (status: "
                         \o rc.ArgoSyncStatus \o ")")>>
          ELSE <<>>)
         \o (IF rc.ArgoHealthStatus # "Healthy"
             THEN <<Issue("ArgoCD", "HealthIssue", "Warning", "ArgoCD Health Issue",
                          "Application " \o rc.ArgoApplication \o " is not healthy (status: "
                            \o rc.ArgoHealthStatus \o ")")>>
             ELSE <<>>)
         \o SyncFailureIssues(rc.ArgoSyncHistory, 1)

\* rc.LastPipeline and rc.LastDeployment: Status "" is nil
GitLabStatus(status, label) == [Status |-> status, label |-> label]

\* TroubleshootCorrelator.analyzeGitLabStatus
analyzeGitLabStatus(rc) ==
    IF ~rc.GitLabProject THEN <<>>
    ELSE (IF rc.LastPipeline.Status # "" /\ rc.LastPipeline.Status # "success"
          THEN <<Issue("GitLab", "PipelineIssue",
                       IF rc.LastPipeline.Status = "failed" THEN "Error" ELSE "Warning",
                       "GitLab Pipeline Issue",
                       "Pipeline #" \o rc.LastPipeline.label \o " status: "
                         \o rc.LastPipeline.Status)>>
          ELSE <<>>)
         \o (IF rc.LastDeployment.Status # "" /\ rc.LastDeployment.Status # "success"
             THEN <<Issue("GitLab", "DeploymentIssue",
                          IF rc.LastDeployment.Status = "failed" THEN "Error" ELSE "Warning",
                          "GitLab Deployment Issue",
                          "Deployment to " \o rc.LastDeployment.label \o " status: "
                            \o rc.LastDeployment.Status)>>
             ELSE <<>>)

\* The categories the switch of generateRecommendations has a case for
RecommendationTable ==
    {"ImagePullError", "HealthCheckFailure", "ResourceIssue", "CrashLoopBackOff",
     "SyncIssue", "SyncFailure", "PipelineIssue", "DeploymentIssue", "PodNotRunning",
     "PodNotReady", "PodInitializing", "InitializationIssue", "ContainerReadinessIssue",
     "VolumeIssue", "SchedulingIssue"}

\* The recommendations the switch adds for one category
Recommendations(category) ==
    CASE category = "ImagePullError" ->
           {"Check image name and credentials for accessing private registries.",
            "Verify that the image tag exists in the registry."}
      [] category = "HealthCheckFailure" ->
           {"Review liveness and readiness probe configuration.",
            "Check application logs for errors during startup."}
      [] category = "ResourceIssue" ->
           {"Review resource requests and limits in the deployment.",
            "Monitor resource usage to determine appropriate values."}
      [] category = "CrashLoopBackOff" ->
           {"Check container logs for errors.",
            "Verify environment variables and configuration."}
      [] category \in {"SyncIssue", "SyncFailure"} ->
           {"Check ArgoCD application manifest for errors.",
            "Verify that the target revision exists in the Git repository."}
      [] category = "PipelineIssue" ->
           {"Review GitLab pipeline logs for errors.",
            "Check if the pipeline configuration is valid."}
      [] category = "DeploymentIssue" ->
           {"Check GitLab deployment job logs for errors.",
            "Verify deployment environment configuration."}
      [] category \in {"PodNotRunning", "PodNotReady", "PodInitializing"} ->
           {"Check pod events for scheduling or initialization issues.",
            "Examine init container logs for errors."}
      [] category = "InitializationIssue" ->
           {"Check init container logs for errors.",
            "Verify that volumes can be mounted properly."}
      [] category = "ContainerReadinessIssue" ->
           {"Review readiness probe configuration.",
            "Check container logs for application startup issues."}
      [] category = "VolumeIssue" ->
           {"Verify that PersistentVolumeClaims are bound.",
            "Check if storage classes are properly configured.",
            "Ensure sufficient storage space is available on the nodes."}
      [] category = "SchedulingIssue" ->
           {"Check if nodes have sufficient resources for the pod.",
            "Verify that node selectors or taints are not preventing scheduling."}
      [] OTHER -> {}

\* TroubleshootCorrelator.generateRecommendations: the keys of
\* recommendationMap.  The slice is filled by ranging over the map, in an
\* order the language leaves open, so the result is kept as a set.
generateRecommendations(issues) ==
    IF Len(issues) = 0
    THEN {"Check pod logs for errors.", "Examine Kubernetes events for the resource.",
          "Verify network connectivity between components."}
    ELSE UNION {Recommendations(issues[i].Category) : i \in DOMAIN issues}

\* The issues of TroubleshootResource before its health check
AnalysisIssues(rc, kind, resource, pvc) ==
    analyzeKubernetesEvents(rc.Events, 1)
    \o (IF resource # NilResource /\ EqualFold(kind, "pod")
        THEN analyzePodStatus(resource, pvc) ELSE <<>>)
    \o (IF resource # NilResource /\ EqualFold(kind, "deployment")
        THEN analyzeDeploymentStatus(resource) ELSE <<>>)
    \o analyzeArgoStatus(rc)
    \o analyzeGitLabStatus(rc)

\* result.Issues of TroubleshootResource, given the context the trace
\* returned, the resource GetResource returned and what the claim lookups
\* answer
TroubleshootIssues(rc, kind, resource, pvc) ==
    IF /\ Len(AnalysisIssues(rc, kind, resource, pvc)) = 0
       /\ resource # NilResource
       /\ ~isResourceHealthy(resource)
    THEN <<Issue("Kubernetes", "UnknownIssue", "Warning", "Resource Not Healthy",
                 kind \o " prod/web is not in a healthy state")>>
    ELSE AnalysisIssues(rc, kind, resource, pvc)

\* ---- the inputs ----

EventLists ==
    {<<>>,
     <<K8sEvent("Warning", "Failed", "Failed to pull image: ImagePullBackOff"),
       K8sEvent("Normal", "BackOff", "Back-off pulling image"),
       K8sEvent("Warning", "BackOff", "Back-off restarting failed container, memory limit 64Mi")>>,
     <<K8sEvent("Warning", "BackOff", "Back-off restarting failed container"),
       K8sEvent("Warning", "Unhealthy", "Readiness probe failed")>>,
     <<K8sEvent("Warning", "FailedScheduling", "0/3 nodes are available: Insufficient cpu"),
       K8sEvent("Warning", "FailedMount", "MountVolume.SetUp failed")>>}

ArgoStates ==
    {[ArgoApplication |-> "", ArgoSyncStatus |-> "", ArgoHealthStatus |-> "",
      ArgoSyncHistory |-> <<>>],
     [ArgoApplication |-> "web", ArgoSyncStatus |-> "Synced", ArgoHealthStatus |-> "Healthy",
      ArgoSyncHistory |-> <<SyncRecord("Succeeded", "abc", "2025-01-02 10:00:00")>>],
     [ArgoApplication |-> "web", ArgoSyncStatus |-> "OutOfSync", ArgoHealthStatus |-> "Degraded",
      ArgoSyncHistory |-> <<SyncRecord("Failed", "abc", "2025-01-02 10:00:00"),
                            SyncRecord("Failed", "def", "2025-01-01 10:00:00")>>]}

GitLabStates ==
    {[GitLabProject |-> FALSE, LastPipeline |-> GitLabStatus("failed", "12"),
      LastDeployment |-> GitLabStatus("", "")],
     [GitLabProject |-> TRUE, LastPipeline |-> GitLabStatus("success", "12"),
      LastDeployment |-> GitLabStatus("", "")],
     [GitLabProject |-> TRUE, LastPipeline |-> GitLabStatus("failed", "12"),
      LastDeployment |-> GitLabStatus("running", "production")]}

\* The context TraceResourceDeployment returns: what the analyses read.
ClassifyContexts ==
    {[Events |-> ev, ArgoApplication |-> a.ArgoApplication,
      ArgoSyncStatus |-> a.ArgoSyncStatus, ArgoHealthStatus |-> a.ArgoHealthStatus,
      ArgoSyncHistory |-> a.ArgoSyncHistory, GitLabProject |-> g.GitLabProject,
      LastPipeline |-> g.LastPipeline, LastDeployment |-> g.LastDeployment] :
        ev \in EventLists, a \in ArgoStates, g \in GitLabStates}

\* The kind asked for and the resource GetResource returns for it.
Target(kind, resource) == [kind |-> kind, resource |-> resource]

Targets ==
    {Target("pod", NilResource),
     Target("Pod", [Raw("Pod") EXCEPT !.phase = Field(TRUE, "Running")]),
     Target("pod", [Raw("Pod") EXCEPT !.phase = Field(TRUE, "Succeeded")]),
     Target("pod", [Raw("Pod") EXCEPT
        !.phase = Field(TRUE, "Pending"),
        !.conditions = <<Condition("Ready", "False", "", ""),
                         Condition("PodScheduled", "False", "Unschedulable", "")>>,
        !.containerStatuses =
            <<ContainerStatus("app", FALSE, 5, "CrashLoopBackOff", "none", 0),
              ContainerStatus("sidecar", FALSE, 0, "none", "Error", 1)>>,
        !.initContainerStatuses =
            <<ContainerStatus("init", FALSE, 0, "ErrImagePull", "none", 0)>>]),
     Target("pod", [Raw("Pod") EXCEPT
        !.phase = Field(TRUE, "Running"),
        !.containerStatuses =
            <<ContainerStatus("app", FALSE, 0, "CreateContainerConfigError", "none", 0),
              ContainerStatus("web", FALSE, 0, "ContainerCreating", "none", 0)>>,
        !.claims = <<"", "data">>]),
     Target("deployment", [Raw("Deployment") EXCEPT
        !.replicas = Field(TRUE, 2), !.availableReplicas = Field(TRUE, 2),
        !.readyReplicas = Field(TRUE, 2)]),
     Target("Deployment", [Raw("Deployment") EXCEPT
        !.replicas = Field(TRUE, 5), !.availableReplicas = Field(TRUE, 3),
        !.readyReplicas = Field(TRUE, 3),
        !.conditions = <<Condition("Progressing", "False", "ProgressDeadlineExceeded", ""),
                         Condition("Available", "False", "MinimumReplicasUnavailable", "")>>]),
     Target("deployment", [Raw("Deployment") EXCEPT
        !.replicas = Field(TRUE, 0), !.availableReplicas = Field(TRUE, 0),
        !.readyReplicas = Field(TRUE, 0)]),
     Target("service", Raw("Service"))}

\* What GetResource answers for a claim of the pod: "error", or the phase
\* of the claim; "unasked" when no claim is looked up.
ClaimAnswers(target) ==
    IF /\ target.resource # NilResource
       /\ EqualFold(target.kind, "pod")
       /\ \E i \in DOMAIN target.resource.claims : target.resource.claims[i] # ""
    THEN {"error", "Pending", "Bound"}
    ELSE {"unasked"}

\* One call of TroubleshootResource: the trace returns a context,
\* GetResource a resource or nothing, the analyses run, and the result is
\* returned.  The log keeps the inputs and the result of each call.
TroubleshootResource ==
    /\ ClassifyFrame
    /\ xpc \in {"idle", "once"}
    /\ xpc' = IF xpc = "idle" THEN "once" ELSE "twice"
    /\ \E rc \in ClassifyContexts, target \in Targets :
         \E pvc \in ClaimAnswers(target) :
            xlog' = Append(xlog,
                [rc |-> rc, kind |-> target.kind, resource |-> target.resource, pvc |-> pvc,
                 Issues |-> TroubleshootIssues(rc, target.kind, target.resource, pvc),
                 Recommendations |->
                    generateRecommendations(
                        TroubleshootIssues(rc, target.kind, target.resource, pvc))])

ClassifyInit ==
    /\ xpc = "idle"
    /\ xlog = <<>>

ClassifyIdle ==
    /\ xpc = "off"
    /\ xlog = <<>>

ClassifyNext == TroubleshootResource

-----------------------------------------------------------------------------
(* The section Related Resources of ContextManager.FormatResourceContext   *)
(* (mcp/context.go).  The contexts taken as input here have related        *)
(* resources and errors, and no metadata, application, project or events.  *)

\* "## Related Resources\n"
RelatedHeading ==
    <<"#", "#", " ", "R", "e", "l", "a", "t", "e", "d", " ", "R", "e", "s",
      "o", "u", "r", "c", "e", "s", "\n">>

\* The names shown per kind
maxToShow == 10

\* strings.Split(resource, "/") has two parts: there is one "/"
SplitsInTwo(resource) == Cardinality(Positions(resource, "/")) = 1

KindOf(resource) == Slice(resource, 0, Index(resource, "/"))

NameOf(resource) == Slice(resource, Index(resource, "/") + 1, Len(resource))

\* The keys of resourcesByKind
RelatedKinds(related) ==
    {KindOf(related[i]) : i \in {j \in DOMAIN related : SplitsInTwo(related[j])}}

\* resourcesByKind[kind]: the names of the kind, in the order of the list
RECURSIVE NamesOfKind(_, _, _)
NamesOfKind(related, kind, i) ==
    IF i > Len(related) THEN <<>>
    ELSE (IF SplitsInTwo(related[i]) /\ KindOf(related[i]) = kind
          THEN <<NameOf(related[i])>> ELSE <<>>)
         \o NamesOfKind(related, kind, i + 1)

\* The lines "- %s\n" written in the first loop for the entries that do
\* not split in two
RECURSIVE UngroupedLines(_, _)
UngroupedLines(related, i) ==
    IF i > Len(related) THEN <<>>
    ELSE (IF SplitsInTwo(related[i]) THEN <<>> ELSE <<"-", " ">> \o related[i] \o NL)
         \o UngroupedLines(related, i + 1)

\* The lines "  - %s\n" of names[i..hi]
RECURSIVE NameLines(_, _, _)
NameLines(names, i, hi) ==
    IF i > hi THEN <<>>
    ELSE <<" ", " ", "-", " ">> \o names[i] \o NL \o NameLines(names, i + 1, hi)

\* The group of one kind: "- %s (%d):\n", then its names, at most maxToShow
KindGroup(kind, names) ==
    <<"-", " ">> \o kind \o <<" ", "(">> \o Itoa(Len(names)) \o <<")", ":", "\n">>
    \o (IF Len(names) > maxToShow
        THEN NameLines(names, 1, maxToShow)
             \o <<" ", " ", "-", " ", ".", ".", ".", " ", "a", "n", "d", " ">> \o Itoa(Len(names) - maxToShow) \o <<" ", "m", "o", "r", "e", "\n">>
        ELSE NameLines(names, 1, Len(names)))

\* The second loop, ranging over resourcesByKind: the groups in the order
\* the range visits the keys.
RECURSIVE KindGroups(_, _, _)
KindGroups(related, order, i) ==
    IF i > Len(order) THEN <<>>
    ELSE KindGroup(order[i], NamesOfKind(related, order[i], 1))
         \o KindGroups(related, order, i + 1)

\* The orders in which a range over a map with these keys may visit them:
\* the language leaves the order open, and it may differ between two ranges
\* over the same map.
RangeOrders(keys) ==
    {order \in [1..Cardinality(keys) -> keys] :
        \A i, j \in DOMAIN order : i # j => order[i] # order[j]}

\* The section Related Resources
RelatedSection(related, order) ==
    IF Len(related) > 0
    THEN RelatedHeading \o UngroupedLines(related, 1) \o KindGroups(related, order, 1) \o NL
    ELSE <<>>

\* The document before the size check
FormattedRelated(rc, order) ==
    HeaderPrefix \o rc.Kind \o <<"/">> \o rc.Name \o NL
    \o (IF rc.Namespace # <<>> THEN NamespacePrefix \o rc.Namespace \o NL ELSE <<>>)
    \o APIVersionPrefix \o rc.APIVersion \o NL \o NL
    \o RelatedSection(rc.RelatedResources, order)
    \o (IF Len(rc.Errors) > 0 THEN ErrorsHeading \o ErrorLines(rc.Errors) \o NL ELSE <<>>)

\* What FormatResourceContext produces under the limit maxContextSize when
\* the range visits the kinds in this order
RelatedDoc(rc, order, maxContextSize) ==
    IF Len(FormattedRelated(rc, order)) > maxContextSize
    THEN TruncateContextSmartly(FormattedRelated(rc, order), maxContextSize)
    ELSE Returned(FormattedRelated(rc, order))

RelatedLists ==
    {<<>>,
     <<<<"P", "/", "a">>>>,
     <<<<"P", "/", "a">>, <<"S", "/", "s">>, <<"P", "/", "b">>>>,
     <<<<"C", "/", "1">>, <<"x">>, <<"P", "/", "a">>, <<"a", "/", "b", "/", "c">>>>,
     <<<<"S", "/", "s">>, <<"C", "/", "1">>, <<"P", "/", "a">>>>}

RelatedContexts ==
    [Kind : {ContextKind}, Name : {<<"w">>}, Namespace : {<<>>, <<"n">>},
     APIVersion : {<<"v", "1">>}, RelatedResources : RelatedLists,
     Errors : {<<>>, <<<<"x">>>>}]

\* The limits of the managers that format
RelatedLimits == {NewContextManager(HandlerMaxContextSize), MaxLimit}

\* One call of cm.FormatResourceContext(rc); the log keeps the context, the
\* limit and the document of each call.
FormatRelatedContext ==
    /\ RelatedFrame
    /\ apc \in {"idle", "once"}
    /\ apc' = IF apc = "idle" THEN "once" ELSE "twice"
    /\ \E rc \in RelatedContexts, limit \in RelatedLimits :
         \E order \in RangeOrders(RelatedKinds(rc.RelatedResources)) :
            alog' = Append(alog, [rc |-> rc, limit |-> limit,
                                  ret |-> RelatedDoc(rc, order, limit)])

RelatedInit ==
    /\ apc = "idle"
    /\ alog = <<>>

RelatedIdle ==
    /\ apc = "off"
    /\ alog = <<>>

RelatedNext == FormatRelatedContext

-----------------------------------------------------------------------------
(* Configuration: config.Load and Config.Validate (pkg/config/config.go).  *)
(* Of the configuration the fields Validate reads are kept, and two it     *)
(* does not read.                                                          *)

\* type Config
Config(address, apiKey, baseURL, modelID, maxTokens) ==
    [Server |-> [Address |-> address],
     Claude |-> [APIKey |-> apiKey, BaseURL |-> baseURL, ModelID |-> modelID,
                 MaxTokens |-> maxTokens]]

\* config := &Config{}
ZeroConfig == Config("", "", "", "", 0)

\* What the YAML of the file parses to
FileConfigs ==
    {Config(address, apiKey, baseURL, modelID, maxTokens) :
        address \in {"", "localhost:8080", ":8080"},
        apiKey \in {"", "sk-file-key"},
        baseURL \in {"", "https://api.anthropic.com"},
        modelID \in {"", "claude-4-sonnet-20250522"},
        maxTokens \in {0, 8192}}

\* os.Getenv("CLAUDE_API_KEY")
EnvKeys == {"", "sk-env-key"}

\* Validate that checks the server address only
ValidateAddressOnly(c) ==
    IF c.Server.Address = "" THEN "server address is required" ELSE "nil"

\* Config.Validate: the text of the error, "nil" for none
Validate(c) ==
    IF c.Server.Address = "" THEN "server address is required"
    ELSE IF c.Claude.APIKey = "" THEN "Claude API key is required"
    ELSE IF c.Claude.ModelID = "" THEN "Claude model ID is required"
    ELSE "nil"

\* config.Load: the file is read and parsed (a failure of either is
\* returned), and CLAUDE_API_KEY, when set, replaces the key of the file.
Load ==
    /\ ConfigFrame
    /\ vpc = "idle"
    /\ vret' = "none"
    /\ \E ok \in BOOLEAN, file \in FileConfigs, apiKey \in EnvKeys :
          IF ~ok THEN vpc' = "failed" /\ vconfig' = ZeroConfig
          ELSE /\ vpc' = "loaded"
               /\ vconfig' = IF apiKey # ""
                             THEN [file EXCEPT !.Claude.APIKey = apiKey]
                             ELSE file

\* cfg.Validate()
ValidateConfig ==
    /\ ConfigFrame
    /\ vpc = "loaded"
    /\ vret' = Validate(vconfig)
    /\ vpc' = "validated"
    /\ UNCHANGED vconfig

ConfigInit ==
    /\ vpc = "idle"
    /\ vconfig = ZeroConfig
    /\ vret = "none"

ConfigIdle ==
    /\ vpc = "off"
    /\ vconfig = ZeroConfig
    /\ vret = "none"

ConfigNext ==
    \/ Load
    \/ ValidateConfig

-----------------------------------------------------------------------------
(* Client.SyncApplication of the ArgoCD client: the one request with a     *)
(* body, sent through doRequest and attemptRequest.                        *)

\* json.Marshal of the sync request, one element per piece of the encoding;
\* revision and resources are omitted when empty.
MarshalSync(revision, prune, resources) ==
    <<"{">>
    \o (IF revision # "" THEN <<"revision:" \o revision>> ELSE <<>>)
    \o <<IF prune THEN "prune:true" ELSE "prune:false">>
    \o (IF resources # <<>> THEN <<"resources:">> \o resources ELSE <<>>)
    \o <<"dryRun:false", "}">>

SyncRevisions == {"", "main"}

SyncResources == {<<>>, <<"Deployment:web">>}

\* bytes.Reader: the unread part of the slice
Unread(b, off) == SubSeq(b, off + 1, Len(b))

\* http.NewRequestWithContext(ctx, method, url, body) for a *bytes.Reader:
\* ContentLength is body.Len(), the unread length, and that unread part is
\* what the request carries (http.NoBody when nothing is unread).
RequestBody(b, off) == Unread(b, off)

\* How far httpClient.Do can have read the body when it returns: anywhere
\* when the transport failed, all of it when the upstream answered.
ReadBy(outcome, b, off) ==
    IF outcome.kind = "transport" THEN off..Len(b) ELSE {Len(b)}

\* SyncApplication: marshal the request and call doRequest with
\* bytes.NewReader(jsonBody).
SyncApplication ==
    /\ SyncFrame
    /\ spc = "idle"
    /\ \E revision \in SyncRevisions, prune \in BOOLEAN,
          resources \in SyncResources :
          sbody' = MarshalSync(revision, prune, resources)
    /\ soffset' = 0
    /\ sattempt' = 0
    /\ ssent' = <<>>
    /\ sresult' = NoResult
    /\ spc' = "attempt"

\* One pass of the loop of doRequest for this request: attemptRequest builds
\* the request from the same reader, sends it, and the loop returns, sleeps
\* or breaks.  The stored token is valid, so addAuth succeeds.
SyncAttempt ==
    /\ SyncFrame
    /\ spc = "attempt"
    /\ \E outcome \in Outcomes :
         LET r == AttemptResult("argocd", outcome) IN
         /\ ssent' = Append(ssent, RequestBody(sbody, soffset))
         /\ \E off \in ReadBy(outcome, sbody, soffset) : soffset' = off
         /\ sresult' = r
         /\ IF r.err = "nil"
            THEN spc' = "done"
            ELSE IF sattempt < maxRetries - 1 /\ shouldRetry(r.err, r.resp)
            THEN spc' = "sleep"
            ELSE spc' = "done"
    /\ UNCHANGED <<sbody, sattempt>>

\* case <-time.After(delay): continue
SyncSleepElapsed ==
    /\ SyncFrame
    /\ spc = "sleep"
    /\ sattempt' = sattempt + 1
    /\ spc' = "attempt"
    /\ UNCHANGED <<sbody, soffset, ssent, sresult>>

\* case <-ctx.Done(): return nil, ctx.Err()
SyncSleepCancelled ==
    /\ SyncFrame
    /\ spc = "sleep"
    /\ sresult' = OnCtxDone(sresult.resp, sresult.err)
    /\ spc' = "done"
    /\ UNCHANGED <<sbody, soffset, sattempt, ssent>>

SyncInit ==
    /\ spc = "idle"
    /\ sbody = <<>>
    /\ soffset = 0
    /\ sattempt = 0
    /\ ssent = <<>>
    /\ sresult = NoResult

SyncIdle ==
    /\ spc = "off"
    /\ sbody = <<>>
    /\ soffset = 0
    /\ sattempt = 0
    /\ ssent = <<>>
    /\ sresult = NoResult

SyncNext ==
    \/ SyncApplication
    \/ SyncAttempt
    \/ SyncSleepElapsed
    \/ SyncSleepCancelled

-----------------------------------------------------------------------------
(* Change analysis with Helm rendering: GitOpsCorrelator.AnalyzeMergeRequest, *)
(* HelmCorrelator.analyzeHelmChart, and the helm.Parser that the            *)
(* correlator creates once, with one working directory.                     *)

HelmRequests == {"mr1", "mr2"}

\* Paths below <workDir>/chart
ChartPaths == {"Chart.yaml", "values.yaml", "templates/a.yaml", "templates/b.yaml"}

\* The chartFiles map of analyzeHelmChart, by its keys
ChartFileSets ==
    {{"Chart.yaml", "values.yaml", "templates/a.yaml"},
     {"Chart.yaml", "values.yaml", "templates/b.yaml"},
     {"values.yaml"}}

\* A path of the working directory that holds no file
NoFile == ""

NoRender == [ran |-> FALSE, ok |-> FALSE, files |-> {}]

\* One use of a file of the working directory: the request that used it,
\* the request whose analysis wrote it, and the kind of use.
Access(by, of, how) == [by |-> by, of |-> of, how |-> how]

\* AnalyzeMergeRequest up to its call of AnalyzeMergeRequestHelmChanges, which
\* it makes when the merge request has HelmChartAffected (helm), and the
\* fetching of the chart's files.
AnalyzeMergeRequestHelmChanges(r) ==
    /\ HelmFrame
    /\ hpc[r] = "idle"
    /\ \E helm \in BOOLEAN, files \in ChartFileSets :
          /\ hfiles' = [hfiles EXCEPT ![r] = IF helm THEN files ELSE {}]
          /\ hpc' = [hpc EXCEPT ![r] = IF helm THEN "write" ELSE "cleanup"]
    /\ UNCHANGED <<hdisk, hrender, haccess>>

\* Parser.WriteChartFiles: every file of the chart is written below
\* p.workDir/chart, the same directory for every call.
WriteChartFiles(r) ==
    /\ HelmFrame
    /\ hpc[r] = "write"
    /\ hdisk' = [p \in ChartPaths |-> IF p \in hfiles[r] THEN r ELSE hdisk[p]]
    /\ haccess' = haccess \cup
          {Access(r, hdisk[p], "modified") :
              p \in {q \in hfiles[r] : hdisk[q] # NoFile}}
    /\ hpc' = [hpc EXCEPT ![r] = "parse"]
    /\ UNCHANGED <<hfiles, hrender>>

\* Parser.ParseChart: helm template renders the chart directory, that is
\* every file that is in it; it fails when the chart is gone.
ParseChart(r) ==
    /\ HelmFrame
    /\ hpc[r] = "parse"
    /\ LET present == {p \in ChartPaths : hdisk[p] # NoFile} IN
       /\ hrender' = [hrender EXCEPT ![r] =
              [ran |-> TRUE, ok |-> present # {}, files |-> present]]
       /\ haccess' = haccess \cup {Access(r, hdisk[p], "read") : p \in present}
    /\ hpc' = [hpc EXCEPT ![r] = "cleanup"]
    /\ UNCHANGED <<hfiles, hdisk>>

\* The deferred HelmCorrelator.Cleanup of AnalyzeMergeRequest:
\* Parser.Cleanup removes the working directory with everything in it.
Cleanup(r) ==
    /\ HelmFrame
    /\ hpc[r] = "cleanup"
    /\ hdisk' = [p \in ChartPaths |-> NoFile]
    /\ haccess' = haccess \cup
          {Access(r, hdisk[p], "removed") :
              p \in {q \in ChartPaths : hdisk[q] # NoFile}}
    /\ hpc' = [hpc EXCEPT ![r] = "done"]
    /\ UNCHANGED <<hfiles, hrender>>

\* After NewGitOpsCorrelator: the parser has an empty working directory.
HelmInit ==
    /\ hpc = [r \in HelmRequests |-> "idle"]
    /\ hfiles = [r \in HelmRequests |-> {}]
    /\ hdisk = [p \in ChartPaths |-> NoFile]
    /\ hrender = [r \in HelmRequests |-> NoRender]
    /\ haccess = {}

HelmIdle ==
    /\ hpc = [r \in HelmRequests |-> "off"]
    /\ hfiles = [r \in HelmRequests |-> {}]
    /\ hdisk = [p \in ChartPaths |-> NoFile]
    /\ hrender = [r \in HelmRequests |-> NoRender]
    /\ haccess = {}

HelmNext ==
    \/ \E r \in HelmRequests : AnalyzeMergeRequestHelmChanges(r)
    \/ \E r \in HelmRequests : WriteChartFiles(r)
    \/ \E r \in HelmRequests : ParseChart(r)
    \/ \E r \in HelmRequests : Cleanup(r)

-----------------------------------------------------------------------------
(* Specifications                                                          *)

InitRetry ==
    /\ RetryInit
    /\ CredIdle
    /\ ListIdle
    /\ TraceIdle
    /\ FormatIdle
    /\ PromptIdle
    /\ ImpactIdle
    /\ ResolveIdle
    /\ RequestIdle
    /\ TopologyIdle
    /\ ClassifyIdle
    /\ RelatedIdle
    /\ ConfigIdle
    /\ SyncIdle
    /\ HelmIdle

SpecRetry == InitRetry /\ [][RetryNext]_vars

InitCred ==
    /\ CredInit
    /\ RetryIdle
    /\ ListIdle
    /\ TraceIdle
    /\ FormatIdle
    /\ PromptIdle
    /\ ImpactIdle
    /\ ResolveIdle
    /\ RequestIdle
    /\ TopologyIdle
    /\ ClassifyIdle
    /\ RelatedIdle
    /\ ConfigIdle
    /\ SyncIdle
    /\ HelmIdle

SpecCred == InitCred /\ [][CredNext]_vars

InitList ==
    /\ ListInit
    /\ RetryIdle
    /\ CredIdle
    /\ TraceIdle
    /\ FormatIdle
    /\ PromptIdle
    /\ ImpactIdle
    /\ ResolveIdle
    /\ RequestIdle
    /\ TopologyIdle
    /\ ClassifyIdle
    /\ RelatedIdle
    /\ ConfigIdle
    /\ SyncIdle
    /\ HelmIdle

SpecList == InitList /\ [][ListNext]_vars

InitTrace ==
    /\ TraceInit
    /\ RetryIdle
    /\ CredIdle
    /\ ListIdle
    /\ FormatIdle
    /\ PromptIdle
    /\ ImpactIdle
    /\ ResolveIdle
    /\ RequestIdle
    /\ TopologyIdle
    /\ ClassifyIdle
    /\ RelatedIdle
    /\ ConfigIdle
    /\ SyncIdle
    /\ HelmIdle

SpecTrace == InitTrace /\ [][TraceNext]_vars

InitFormat ==
    /\ FormatInit
    /\ RetryIdle
    /\ CredIdle
    /\ ListIdle
    /\ TraceIdle
    /\ PromptIdle
    /\ ImpactIdle
    /\ ResolveIdle
    /\ RequestIdle
    /\ TopologyIdle
    /\ ClassifyIdle
    /\ RelatedIdle
    /\ ConfigIdle
    /\ SyncIdle
    /\ HelmIdle

SpecFormat == InitFormat /\ [][FormatNext]_vars

InitPrompt ==
    /\ PromptInit
    /\ RetryIdle
    /\ CredIdle
    /\ ListIdle
    /\ TraceIdle
    /\ FormatIdle
    /\ ImpactIdle
    /\ ResolveIdle
    /\ RequestIdle
    /\ TopologyIdle
    /\ ClassifyIdle
    /\ RelatedIdle
    /\ ConfigIdle
    /\ SyncIdle
    /\ HelmIdle

SpecPrompt == InitPrompt /\ [][PromptNext]_vars

InitImpact ==
    /\ ImpactInit
    /\ RetryIdle
    /\ CredIdle
    /\ ListIdle
    /\ TraceIdle
    /\ FormatIdle
    /\ PromptIdle
    /\ ResolveIdle
    /\ RequestIdle
    /\ TopologyIdle
    /\ ClassifyIdle
    /\ RelatedIdle
    /\ ConfigIdle
    /\ SyncIdle
    /\ HelmIdle

SpecImpact == InitImpact /\ [][ImpactNext]_vars

InitResolve ==
    /\ ResolveInit
    /\ RetryIdle
    /\ CredIdle
    /\ ListIdle
    /\ TraceIdle
    /\ FormatIdle
    /\ PromptIdle
    /\ ImpactIdle
    /\ RequestIdle
    /\ TopologyIdle
    /\ ClassifyIdle
    /\ RelatedIdle
    /\ ConfigIdle
    /\ SyncIdle
    /\ HelmIdle

SpecResolve == InitResolve /\ [][ResolveNext]_vars

InitRequest ==
    /\ RequestInit
    /\ RetryIdle
    /\ CredIdle
    /\ ListIdle
    /\ TraceIdle
    /\ FormatIdle
    /\ PromptIdle
    /\ ImpactIdle
    /\ ResolveIdle
    /\ TopologyIdle
    /\ ClassifyIdle
    /\ RelatedIdle
    /\ ConfigIdle
    /\ SyncIdle
    /\ HelmIdle

SpecRequest == InitRequest /\ [][RequestNext]_vars

InitTopology ==
    /\ TopologyInit
    /\ RetryIdle
    /\ CredIdle
    /\ ListIdle
    /\ TraceIdle
    /\ FormatIdle
    /\ PromptIdle
    /\ ImpactIdle
    /\ ResolveIdle
    /\ RequestIdle
    /\ ClassifyIdle
    /\ RelatedIdle
    /\ ConfigIdle
    /\ SyncIdle
    /\ HelmIdle

SpecTopology == InitTopology /\ [][TopologyNext]_vars

InitClassify ==
    /\ ClassifyInit
    /\ RetryIdle
    /\ CredIdle
    /\ ListIdle
    /\ TraceIdle
    /\ FormatIdle
    /\ PromptIdle
    /\ ImpactIdle
    /\ ResolveIdle
    /\ RequestIdle
    /\ TopologyIdle
    /\ RelatedIdle
    /\ ConfigIdle
    /\ SyncIdle
    /\ HelmIdle

SpecClassify == InitClassify /\ [][ClassifyNext]_vars

InitRelated ==
    /\ RelatedInit
    /\ RetryIdle
    /\ CredIdle
    /\ ListIdle
    /\ TraceIdle
    /\ FormatIdle
    /\ PromptIdle
    /\ ImpactIdle
    /\ ResolveIdle
    /\ RequestIdle
    /\ TopologyIdle
    /\ ClassifyIdle
    /\ ConfigIdle
    /\ SyncIdle
    /\ HelmIdle

SpecRelated == InitRelated /\ [][RelatedNext]_vars

InitConfig ==
    /\ ConfigInit
    /\ RetryIdle
    /\ CredIdle
    /\ ListIdle
    /\ TraceIdle
    /\ FormatIdle
    /\ PromptIdle
    /\ ImpactIdle
    /\ ResolveIdle
    /\ RequestIdle
    /\ TopologyIdle
    /\ ClassifyIdle
    /\ RelatedIdle
    /\ SyncIdle
    /\ HelmIdle

SpecConfig == InitConfig /\ [][ConfigNext]_vars

InitSync ==
    /\ SyncInit
    /\ RetryIdle
    /\ CredIdle
    /\ ListIdle
    /\ TraceIdle
    /\ FormatIdle
    /\ PromptIdle
    /\ ImpactIdle
    /\ ResolveIdle
    /\ RequestIdle
    /\ TopologyIdle
    /\ ClassifyIdle
    /\ RelatedIdle
    /\ ConfigIdle
    /\ HelmIdle

SpecSync == InitSync /\ [][SyncNext]_vars

InitHelm ==
    /\ HelmInit
    /\ RetryIdle
    /\ CredIdle
    /\ ListIdle
    /\ TraceIdle
    /\ FormatIdle
    /\ PromptIdle
    /\ ImpactIdle
    /\ ResolveIdle
    /\ RequestIdle
    /\ TopologyIdle
    /\ ClassifyIdle
    /\ RelatedIdle
    /\ ConfigIdle
    /\ SyncIdle

SpecHelm == InitHelm /\ [][HelmNext]_vars

-----------------------------------------------------------------------------
(* Claims about the request loop, checked under SpecRetry.                 *)

Other4xx == {st \in Statuses : st >= 400 /\ st < 500 /\ st \notin {401, 429}}

\* C2: a response with a 4xx status other than 429 (400, 403, 404) is
\* returned to the caller after that attempt: the request is not retried and
\* no backoff sleep follows it.
C2_Other4xxNotRetried ==
    (attemptLog # <<>> /\ Last(attemptLog).status \in Other4xx) => rpc = "done"

\* C3: when an ArgoCD request is answered with 401 and the credential has a
\* username and password, the token is refreshed and the request is retried:
\* a returned request whose first 401 was its last attempt does not exist.
C3_RefreshAndRetryOn401 ==
    (client = "argocd" /\ hasUserPass /\ rpc = "done" /\ result.err # "ctx")
        => \A i \in DOMAIN attemptLog :
              attemptLog[i].status = 401 => (refreshes >= 1 /\ i < Len(attemptLog))

\* C4: one request makes at most three attempts, and the sleeps between
\* consecutive attempts are 1 s and then 2 s.
C4_AtMostThreeAttemptsWithBackoff ==
    /\ Len(attemptLog) <= 3
    /\ sleeps \in {<<>>, <<1>>, <<1, 2>>}
    /\ Len(attemptLog) <= Len(sleeps) + 1
    /\ rpc = "sleep" => Len(attemptLog) = Len(sleeps)

C4_Witness ==
    rpc = "done" /\ Len(attemptLog) = 3 /\ sleeps = <<1, 2>> /\ result.err = "http"

\* C5: a backoff sleep that ends while the context is cancelled and its timer
\* has not fired ends the request with the context's error, and no further
\* attempt is made.
C5_CancelDuringSleepReturnsCtxErr ==
    [][(rpc = "sleep" /\ ctxCancelled /\ ~timerFired /\ rpc' # "sleep")
          => (rpc' = "done" /\ result'.err = "ctx" /\ result'.resp = NoResp
              /\ attemptLog' = attemptLog)]_vars

C5_Witness ==
    rpc = "done" /\ ctxCancelled /\ ~timerFired /\ result.err = "ctx"
    /\ Len(sleeps) = 2 /\ Len(attemptLog) = 2



-----------------------------------------------------------------------------
(* Claims about the CredentialProvider, checked under SpecCred.            *)

\* C1: every lock is a leaf lock: a task that is waiting in a Lock call
\* holds neither the write lock nor a read lock of the provider, so the call
\* it waits in can return.
C1_LocksAreLeaf ==
    \A t \in Tasks :
        cpc[t] \in LockWait => (writerOwner # t /\ ~holdsRead[t])

-----------------------------------------------------------------------------
(* Claims about the namespace list, checked under SpecList.                *)

\* The objects stored for a kind came from the List call of resource i of
\* resource list g.
StoredFrom(kind, g, i) ==
    \E k \in DOMAIN collection[kind] :
        collection[kind][k][1] = g /\ collection[kind][k][2] = i

\* C7: the namespace list/topology operation returns success exactly when
\* discovery succeeded; a List call that failed leaves nothing of its
\* resource in the result and does not make the operation fail.
C7_SucceedsIffDiscoverySucceeded ==
    lmain = "done" =>
        /\ (lresult = "ok") <=> discoveryOK
        /\ lresult \in {"ok", "err"}
        /\ \A rec \in listLog : ~rec.ok => ~StoredFrom(rec.kind, rec.g, rec.i)

C7_Witness ==
    /\ lmain = "done" /\ lresult = "ok" /\ ~lctx
    /\ \E rec \in listLog : ~rec.ok
    /\ \E rec \in listLog : rec.ok /\ StoredFrom(rec.kind, rec.g, rec.i)

\* C8: when the context is cancelled while List calls are in flight, the
\* operation returns the context's error instead of a topology.
C8_CancelReturnsCtxErr ==
    (lmain = "done" /\ cancelInFlight) => lresult = "ctxerr"

\* C9: whatever the interleaving of the goroutines, the collection holds,
\* for every kind listed successfully, the items of the upstream lists of
\* that kind in upstream order: no item of a returned list is lost.
C9_NoListedItemLost ==
    (lop = "collect" /\ lmain = "done") =>
        \A rec \in listLog :
            (rec.ok /\ rec.items # <<>>) =>
                \E off \in 0..Len(collection[rec.kind]) :
                    /\ off + Len(rec.items) <= Len(collection[rec.kind])
                    /\ \A k \in DOMAIN rec.items :
                          collection[rec.kind][off + k] = rec.items[k]

-----------------------------------------------------------------------------
(* Claims about TraceResourceDeployment, checked under SpecTrace.          *)

FailedCalls == SelectSeq(tcalls, LAMBDA c : ~c.ok)

\* C6: TraceResourceDeployment never aborts: whichever upstream calls fail,
\* it returns a ResourceContext with a nil error, and the errors of the
\* context hold one entry for every failed call, in the order of the calls.
C6_TraceNeverAborts ==
    /\ tresult \in {"none", "nil"}
    /\ tpc = "done" =>
          /\ tresult = "nil"
          /\ Len(trc.errors) = Len(FailedCalls)
          /\ \A k \in DOMAIN FailedCalls : trc.errors[k] = ErrMsg(FailedCalls[k].call)
    /\ tpc # "done" => (tresult = "none" /\ ENABLED TraceNext)

C6_Witness ==
    /\ tpc = "done" /\ tresult = "nil"
    /\ Len(tcalls) = 7
    /\ Len(trc.errors) = 5
    /\ trc.argoApp /\ trc.project

-----------------------------------------------------------------------------
(* Claims about the ContextManager, checked under SpecFormat.              *)

\* C10: for every ResourceContext and every configured limit, the document
\* returned by FormatResourceContext, and by CombineContexts, is at most
\* maxContextSize characters long.
C10_DocumentWithinLimit ==
    (fcall.op \in {"format", "combine"} /\ ~fret.panic) => Len(fret.doc) <= fcm

-----------------------------------------------------------------------------
(* Claims about GetCompletion, checked under SpecPrompt.                   *)

\* C11: whenever the completion client is invoked, the system prompt and the
\* user prompt it is handed together hold at most maxPromptSize characters,
\* whatever the lengths of the prompts handed to GetCompletion.
C11_PromptsWithinBudget ==
    ppc \in {"sent", "done"} => psent.sys + psent.usr <= maxPromptSize

C11_Witness ==
    /\ ppc = "sent"
    /\ pin.sys.len + pin.usr.len > maxPromptSize
    /\ psent.sys < pin.sys.len
    /\ psent.usr < (maxPromptSize \div 2) - promptBuffer - PeriodOffset
    /\ psent.usr > Len(truncateMsg)

-----------------------------------------------------------------------------
(* Claims about change impact, checked under SpecImpact.                   *)

\* C12: every ResourceContext returned by the analysis of a change carries
\* a RelatedResources entry naming the change: Commit/<sha> for a commit,
\* MergeRequest/<iid> for a merge request.
C12_ChangeIsNamed ==
    (ipc = "done" /\ iret = "ok") =>
        \A i \in DOMAIN iresult :
            \E k \in DOMAIN iresult[i].RelatedResources :
                iresult[i].RelatedResources[k] =
                    RelatedEntry(IF ichange.type = "commit" THEN "Commit" ELSE "MergeRequest",
                                 ichange.id)

-----------------------------------------------------------------------------
(* Claims about kind resolution, checked under SpecResolve.                *)

\* C15: discovery results are cached: once a resolution has missed the
\* built-in table, called ServerPreferredResources and found the kind, a
\* later resolution of the same kind is answered without calling
\* ServerPreferredResources again. (getGVR reads no clock, so the later
\* resolution can always fall within the validity period of a cache.)
C15_DiscoveryIsCached ==
    \A i, j \in DOMAIN klog :
        (/\ i < j
         /\ klog[i].type = klog[j].type
         /\ klog[i].res.discovered
         /\ klog[i].res.err = "none") => ~klog[j].res.discovered

\* Names of one kind: the singular, another letter case, and the plural.
SameKind(a, b) ==
    \E names \in {{"pod", "Pod", "pods"}, {"widget", "Widget", "widgets"}} :
        a \in names /\ b \in names

\* C16: kind resolution is insensitive to letter case and to singular or
\* plural form: resolutions of "pod", "Pod" and "pods" against the same
\* cluster yield the same group, version and resource, or the same failure.
C16_ResolutionIgnoresCaseAndPlural ==
    \A i, j \in DOMAIN klog :
        SameKind(klog[i].type, klog[j].type) =>
            /\ klog[i].res.err = klog[j].res.err
            /\ klog[i].res.gvr = klog[j].res.gvr

-----------------------------------------------------------------------------
(* Claims about requests, checked under SpecRequest.                       *)

\* The request names a kind that is neither in the built-in table nor in
\* the discovery answer, and the request has got as far as resolving it.
NamesUnknownKind ==
    /\ qpc \notin {"idle", "process", "trace"}
    /\ qendpoint = "troubleshoot" \/ (qreq.Action = "queryResource" /\ qreq.Context = "")
    /\ qreq.Resource # "" /\ qreq.Name # ""
    /\ getGVR(qreq.Resource, qcluster).err = "unknown resource type"

\* C13: a request that names an unknown resource kind is answered with a
\* caller error at once: no call to the GitOps service, the source host or
\* the completion provider is made for it, and no success response is
\* produced.
C13_UnknownKindIsCallerError ==
    NamesUnknownKind =>
        /\ qcalls \cap {"argocd", "gitlab", "claude"} = {}
        /\ qresp.code # 200

\* C14: if the completion call fails, the request returns a single error to
\* the caller, and none of the context, issues or analysis collected so far
\* is returned.
C14_CompletionFailureReturnsOnlyError ==
    (qpc = "done" /\ qllm = "failed") =>
        /\ qresp.error
        /\ qresp.code = 500
        /\ ~qresp.analysis /\ ~qresp.context /\ ~qresp.issues

C14_Witness ==
    /\ qpc = "done" /\ qllm = "failed"
    /\ qendpoint = "troubleshoot"
    /\ qheld.context /\ qheld.issues

-----------------------------------------------------------------------------
(* Claims about the namespace topology, checked under SpecTopology.        *)

NoDuplicates(s) == \A i, j \in DOMAIN s : i # j => s[i] # s[j]

\* C17: the relationships of a returned NamespaceTopology hold no two edges
\* equal on all seven fields, so that deduplicating them again leaves them
\* unchanged.
C17_RelationshipsAreDeduplicated ==
    (mpc = "returned" /\ mret.err = "none") =>
        /\ NoDuplicates(mret.Relationships)
        /\ Deduplicate(mret.Relationships, 1, {}) = mret.Relationships

-----------------------------------------------------------------------------
(* Claims about issue classification, checked under SpecClassify.          *)

\* The issue category set of the glossary
IssueCategorySet ==
    {"ImagePullError", "HealthCheckFailure", "ResourceIssue", "CrashLoopBackOff",
     "SyncIssue", "SyncFailure", "PipelineIssue", "DeploymentIssue", "PodNotRunning",
     "PodNotReady", "PodInitializing", "InitializationIssue", "ContainerReadinessIssue",
     "VolumeIssue", "SchedulingIssue", "DeploymentNotAvailable", "DeploymentNotReady",
     "DeploymentNotProgressing", "ContainerWaiting", "ContainerTerminated",
     "FrequentRestarts", "UnknownIssue", "OtherWarning"}

\* C18: every issue a classification emits, whatever the resource, the
\* events, the GitOps status and the source-host status, has a category of
\* the closed issue-category set.
C18_CategoriesAreClosed ==
    \A r \in DOMAIN xlog :
        \A i \in DOMAIN xlog[r].Issues : xlog[r].Issues[i].Category \in IssueCategorySet

\* The titles of the event scan
EventTitles ==
    {"Image Pull Failure", "Health Check Failure", "Memory Resource Issue",
     "CPU Resource Issue", "Container Crash Loop", "Kubernetes Warning"}

\* The place of an issue in the order of the checks: the event scan; then,
\* for a pod, phase, conditions, container statuses, volumes, and for a
\* deployment, available count, ready count, conditions; then the GitOps
\* checks, the source-host checks and the fallback.
Stage(issue) ==
    CASE issue.Source = "ArgoCD" -> 6
      [] issue.Source = "GitLab" -> 7
      [] issue.Title \in EventTitles -> 1
      [] issue.Category = "PodNotRunning" -> 2
      [] issue.Title = "Deployment Not Fully Available" -> 2
      [] issue.Title = "Deployment Not Fully Ready" -> 3
      [] issue.Category \in {"SchedulingIssue", "InitializationIssue",
                             "ContainerReadinessIssue", "PodNotReady"} -> 3
      [] issue.Title \in {"Deployment Not Available", "Deployment Not Progressing"} -> 4
      [] issue.Category = "VolumeIssue" -> 5
      [] issue.Category = "UnknownIssue" -> 8
      [] OTHER -> 4

\* The Warning events of a list, in its order
RECURSIVE Warnings(_, _)
Warnings(events, i) ==
    IF i > Len(events) THEN <<>>
    ELSE (IF events[i].Type = "Warning" THEN <<events[i]>> ELSE <<>>)
         \o Warnings(events, i + 1)

\* The issues of a call are in the order of the checks, those of the event
\* scan first and in the order of the events.
InCheckOrder(call) ==
    LET warnings == Warnings(call.rc.Events, 1) IN
    /\ \A i, j \in DOMAIN call.Issues :
          i < j => Stage(call.Issues[i]) <= Stage(call.Issues[j])
    /\ \A i \in DOMAIN call.Issues :
          call.Issues[i].Title \in EventTitles <=> i <= Len(warnings)
    /\ \A i \in DOMAIN warnings :
          /\ i <= Len(call.Issues)
          /\ call.Issues[i].Description = warnings[i].Reason \o ": " \o warnings[i].Message

SameInputs(a, b) == a.rc = b.rc /\ a.kind = b.kind /\ a.resource = b.resource

-----------------------------------------------------------------------------
(* Claims about the section Related Resources, checked under SpecRelated.  *)

\* C20: formatting the same context under the same limit twice yields the
\* same document, character for character, the groups of the section
\* Related Resources included.
C20_SameContextSameDocument ==
    \A a, b \in DOMAIN alog :
        (alog[a].rc = alog[b].rc /\ alog[a].limit = alog[b].limit)
            => alog[a].ret = alog[b].ret

-----------------------------------------------------------------------------
(* Claims about the applications a commit affects, checked under           *)
(* SpecImpact.                                                             *)

\* The path is the directory, or lies under it
UnderDirectory(path, dir) ==
    \/ path = dir
    \/ HasPrefix(path, IF dir[Len(dir)] = "/" THEN dir ELSE dir \o <<"/">>)

\* C22: for a commit, an application sourced from the project of the commit
\* is taken as affected exactly when its source path is empty or one of the
\* changed file paths is the source path or lies under it as a directory.
C22_AffectedIffUnderSourcePath ==
    (ipc = "apps" /\ ichange.type = "commit") =>
        \A a \in DOMAIN iapps :
            isAppSourcedFromProject(iapps[a], iproject) =>
                (isAppAffectedByDiffs(iapps[a], idiffs)
                 <=> \/ iapps[a].path = <<>>
                     \/ \E d \in DOMAIN idiffs :
                           \/ UnderDirectory(idiffs[d].NewPath, iapps[a].path)
                           \/ UnderDirectory(idiffs[d].OldPath, iapps[a].path))

-----------------------------------------------------------------------------
(* Claims about smart truncation, checked under SpecPrompt, where          *)
(* GetCompletion cuts the user prompt with TruncateContextSmartly.         *)

\* The limit GetCompletion hands to TruncateContextSmartly
UserPromptLimit(sysLen) ==
    IF MaxUserPromptSize(sysLen) < minUserPromptSize
    THEN (maxPromptSize \div 2) - promptBuffer
    ELSE MaxUserPromptSize(sysLen)

\* The user prompt was longer than the limit and has been cut
UserPromptCut ==
    /\ ppc \in {"sent", "done"}
    /\ pin.sys.len + pin.usr.len > maxPromptSize
    /\ pin.usr.len > UserPromptLimit(pin.sys.len)

\* C23: smart truncation of a document longer than the limit L yields an
\* output of at least L - 100 and at most L characters.
C23_TruncatedLengthNearLimit ==
    UserPromptCut =>
        /\ psent.usr <= UserPromptLimit(pin.sys.len)
        /\ psent.usr >= UserPromptLimit(pin.sys.len) - 100

-----------------------------------------------------------------------------
(* Claims about CombineContexts, checked under SpecFormat.                 *)

\* The wrapper of a single resource: the preamble for one resource, the
\* marker "--- RESOURCE 1/1 ---" before the document and the closing line
\* after it.
WrappedAlone(doc) ==
    CombinedPrefix \o <<"1">> \o CombinedSuffix
    \o ResourcePrefix \o <<"1", "/", "1">> \o ResourceSuffix
    \o doc \o ResourceEnd

\* CombineContexts has been called with one context that formats
CombinedAlone ==
    /\ fcall.op = "combine"
    /\ Len(fcall.rcs) = 1
    /\ ~FormatDoc(fcall.rcs[1], fcm).panic

-----------------------------------------------------------------------------
(* Claims about the configuration, checked under SpecConfig.               *)

-----------------------------------------------------------------------------
(* Claims about the fallback issue and the recommendations, checked under  *)
(* SpecClassify.                                                           *)

\* The result of a call holds the fallback issue
HasFallback(call) ==
    \E i \in DOMAIN call.Issues : call.Issues[i].Category = "UnknownIssue"

\* C26: the fallback issue is emitted exactly when no other issue was
\* emitted, the raw resource was retrieved and its health per kind, under
\* which a pod in phase Running or Succeeded is healthy, is not healthy;
\* the result then holds that one issue, UnknownIssue (Warning) "Resource
\* Not Healthy".  A healthy resource for which no check reports anything
\* yields no issue.
C26_FallbackIffUnhealthyAndQuiet ==
    \A r \in DOMAIN xlog :
        LET call == xlog[r]
            quiet == Len(AnalysisIssues(call.rc, call.kind, call.resource, call.pvc)) = 0
        IN  /\ HasFallback(call) <=>
                  /\ quiet
                  /\ call.resource # NilResource
                  /\ determineResourceHealth(call.resource) # "healthy"
            /\ HasFallback(call) =>
                  /\ Len(call.Issues) = 1
                  /\ call.Issues[1].Severity = "Warning"
                  /\ call.Issues[1].Title = "Resource Not Healthy"
            /\ (/\ quiet
                /\ call.resource # NilResource
                /\ determineResourceHealth(call.resource) = "healthy")
                  => call.Issues = <<>>


\* C27: every category yields recommendations, its own or the default ones,
\* so a result with at least one issue never has an empty list of
\* recommendations.
C27_IssuesAlwaysGetRecommendations ==
    \A r \in DOMAIN xlog :
        /\ \A i \in DOMAIN xlog[r].Issues :
              Recommendations(xlog[r].Issues[i].Category) # {}
        /\ xlog[r].Issues # <<>> => xlog[r].Recommendations # {}


\* Claims about the credential lock's pairing and the credential data,
\* checked under SpecCred

\* C28: in CredentialProvider every acquisition is matched by exactly one
\* release of the same mode: the readers counted by the lock are the tasks
\* that hold a read lock, the deferred Unlock of GetCredentials runs only in
\* the task that holds the write lock, its deferred RUnlock only in a task
\* that holds a read lock, and no release hits a lock that is not held.
C28_ReleasesMatchAcquisitions ==
    /\ ~crashed
    /\ readerCount = Cardinality({t \in Tasks : holdsRead[t]})
    /\ \A t \in Tasks :
          /\ cpc[t] = "g_unlock" => writer /\ writerOwner = t
          /\ cpc[t] = "g_runlock" => holdsRead[t]


\* A task that has GetCredentials' result for the service: the caller reads
\* the fields of the returned *Credentials (addAuth: creds.Token,
\* creds.Username) before it goes on, with no lock held.
ReadsCredential(t, svc) ==
    cpc[t] = "done" /\ cret[t] = "creds" /\ csvc[t] = svc

\* A task inside UpdateArgoToken, which assigns Token and ExpiresAt of the
\* stored ArgoCD entry in place.
WritesCredential(u, svc) ==
    cpc[u] = "u_body" /\ svc = "argocd" /\ credentials[svc].present

\* C29: credential data is never read by one task while another task writes
\* it: whenever a task is writing a service's token and expiry, no other task
\* is reading the fields of that service's credential.
C29_NoReadWhileWritten ==
    \A t \in Tasks, u \in Tasks, svc \in Services :
        (t # u /\ WritesCredential(u, svc)) => ~ReadsCredential(t, svc)


\* Claims about the body of a retried request, checked under SpecSync

\* C30: when a request that carries a body is retried, every attempt
\* transmits the same complete body as the first attempt: each request
\* built for SyncApplication carries the whole marshalled sync request.
C30_EveryAttemptSendsWholeBody ==
    \A i \in DOMAIN ssent : ssent[i] = sbody /\ ssent[i] = ssent[1]


\* Claims about request-scoped state, checked under SpecHelm

\* C21: all engine state is request-scoped: no file written while serving
\* one change analysis is read, modified or removed while serving another,
\* and a rendering sees exactly the chart files of its own request.
C21_StateIsRequestScoped ==
    /\ \A a \in haccess : a.by = a.of
    /\ \A r \in HelmRequests :
          hrender[r].ran => hrender[r].ok /\ hrender[r].files = hfiles[r]

=============================================================================
